---- MODULE Spec2Model ----
(***************************************************************************)
(* A model of skchange's MVCAPA engine                                     *)
(* (src/skchange/anomaly_detectors/mvcapa.py), of seeded binary            *)
(* segmentation (src/skchange/change_detectors/binary_segmentation.py),    *)
(* of the window construction of the moving-score anomaly detector         *)
(* (src/skchange/anomaly_detectors/moscore_anomaly.py) and of the          *)
(* BaseDetector life cycle (src/skchange/base.py).                         *)
(*                                                                         *)
(* Floating-point quantities (savings, alpha, betas, opt_savings) are      *)
(* modelled as integers; arrays keep the source's 0-based indices and are  *)
(* functions over 0..len-1.  The saving capability (saving_func) is an     *)
(* external callable: it is modelled as an arbitrary function from the     *)
(* intervals the engine can query to rows of p non-negative values.        *)
(***************************************************************************)
EXTENDS Integers, Sequences, FiniteSets, TLC

\* ------------------------------------------------------------------ bounds
\* Longest sequence explored (n = X.shape[0]).
MaxN == 3
\* Number of components explored by the DP specification (p = X.shape[1]).
P == 2
\* Largest single-component saving value in the DP specification.
MaxSaving == 5
\* Largest penalty scale in the DP specification.
MaxScale == 1
\* Row specification (penalise_savings, find_affected_components on one row):
\* largest number of components, saving value, alpha and beta.
MaxRowP == 3
MaxRowSaving == 2
MaxRowAlpha == 1
MaxRowBeta == 1
\* Penalty specification (the four penalty policies): largest dimension p,
\* largest scale, and largest value of a transcendental term of the formulas.
MaxPenP == 3
MaxPenScale == 2
MaxTerm == 1
\* Estimator specification (Mvcapa: constructor, _fit, _predict): largest
\* segment length and number of rows.
MaxLifeLen == 3
\* make_seeded_intervals on its own: longest sequence.
MaxSeedN == 8
\* run_seeded_binary_segmentation: longest sequence and largest threshold.
MaxSegN == 6
MaxThreshold == 1
\* run_moscore_anomaly: longest sequence, largest bandwidth, largest anomaly
\* length and largest number of anomaly lengths.
MaxMosN == 7
MaxBandwidth == 2
MaxAnomalyLength == 5
MaxLengths == 3

\* ------------------------------------------------------------- constants
\* np.nan in opt_anomaly_starts: "no anomaly ends here".
NaN == -1
\* The tolerance 1e-8 of penalise_savings, in the model's integer unit:
\* an integer beta is below 1e-8 exactly when it is below 1.
BetaTol == 1
\* n_params as _get_penalty_components passes it.
n_params == 1

VARIABLES
    \* --- inputs of run_mvcapa
    n,                    \* X.shape[0]
    min_segment_length,
    max_segment_length,
    saving,               \* saving_func(params, [s], [e])[0], for the <<s, e>>
                          \* it has been called with so far
    collective_alpha,
    collective_betas,
    point_alpha,
    point_betas,
    unit_collective,      \* the collective penalty at scale 1
    unit_point,           \* the point penalty at scale 1
    scale,                \* the penalty scale the penalties were built with
    \* --- locals of run_base_capa / get_anomalies
    pc,
    t,
    opt_savings,
    opt_anomaly_starts,
    collective_anomalies,
    point_anomalies,
    \* --- one call of penalise_savings / find_affected_components on one row
    row_pc,
    row_saving,           \* saving_i, the saving of each component
    row_alpha,
    row_betas,
    row_penalised,        \* penalised_savings[i]
    row_affected,         \* saving_order[: argmax + 1]
    \* --- one call of a penalty policy
    pen_pc,
    pen_p,                \* p
    pen_scale,            \* scale
    pen_terms,            \* the values of log, sqrt and chi2 the formulas use
    pen_policy,           \* the name given to capa_penalty_factory
    pen_alpha,            \* the returned alpha
    pen_betas,            \* the returned betas
    \* --- one Mvcapa estimator
    life_pc,              \* "new", "constructed" or "raised" (by the constructor)
    est,                  \* the attributes of the estimator
    call,                 \* the last call: its operation, its X, what it raised
    \* --- make_seeded_intervals / run_seeded_binary_segmentation
    seg_pc,
    seg_caller,           \* the function that was called
    seg_n,                \* n = X.shape[0]
    min_interval_length,
    max_interval_length,  \* as passed in
    growth_factor,        \* <<numerator, denominator>>
    interval_len,
    step,
    level_starts,
    level_ends,
    seg_starts,           \* starts[1:], as a sequence
    seg_ends,             \* ends[1:]
    seg_min_segment_length,
    threshold,
    seg_X,
    score_kind,           \* which score function score_func is
    amoc_scores,
    maximizers,
    seg_scores,           \* the local copy of scores in greedy_changepoint_selection
    cpts,
    \* --- run_moscore_anomaly
    mos_pc,
    mos_n,                \* n = len(X)
    anomaly_lengths,
    left_bandwidth,
    right_bandwidth,
    mos_starts,
    mos_ends,
    background_starts,
    background_ends,
    \* --- one BaseDetector
    det_pc,               \* "unborn" before the constructor, then "live"
    det,                  \* the attributes of the detector
    det_call              \* the last call: operation, arguments, outcome

capa_vars == <<n, min_segment_length, max_segment_length, saving, collective_alpha,
          collective_betas, point_alpha, point_betas, unit_collective,
          unit_point, scale, pc, t, opt_savings, opt_anomaly_starts,
          collective_anomalies, point_anomalies>>

row_vars == <<row_pc, row_saving, row_alpha, row_betas, row_penalised, row_affected>>

pen_vars == <<pen_pc, pen_p, pen_scale, pen_terms, pen_policy, pen_alpha, pen_betas>>

life_vars == <<life_pc, est, call>>

seg_vars == <<seg_pc, seg_caller, seg_n, min_interval_length, max_interval_length,
              growth_factor, interval_len, step, level_starts, level_ends,
              seg_starts, seg_ends, seg_min_segment_length, threshold, seg_X,
              score_kind, amoc_scores, maximizers, seg_scores, cpts>>

mos_vars == <<mos_pc, mos_n, anomaly_lengths, left_bandwidth, right_bandwidth,
              mos_starts, mos_ends, background_starts, background_ends>>

det_vars == <<det_pc, det, det_call>>

\* The variables of the detectors outside the MVCAPA engine.
ext_vars == <<seg_vars, mos_vars, det_vars>>

vars == <<capa_vars, row_vars, pen_vars, life_vars, ext_vars>>

\* ---------------------------------------------------------------- helpers
Max(a, b) == IF a >= b THEN a ELSE b

Min(a, b) == IF a <= b THEN a ELSE b

\* sum of f[lo..hi]
RECURSIVE SumRange(_, _, _)
SumRange(f, lo, hi) == IF hi < lo THEN 0 ELSE f[hi] + SumRange(f, lo, hi - 1)

\* np.cumsum(f)[k]
CumSum(f, k) == SumRange(f, 0, k)

\* np.argmax returning the last index of the maximum instead of the first.
RECURSIVE ArgMaxScan_last(_, _, _, _)
ArgMaxScan_last(f, k, hi, best) ==
    IF k > hi THEN best
    ELSE LET v == f[k]
         IN  ArgMaxScan_last(f, k + 1, hi, IF v >= best[2] THEN <<k, v>> ELSE best)

\* np.argmax over the indices lo..hi of f, scanning from index k with the best
\* <<index, value>> so far: a later entry wins only when strictly larger, so
\* the first index of the maximum is returned.
RECURSIVE ArgMaxScan(_, _, _, _)
ArgMaxScan(f, k, hi, best) ==
    IF k > hi THEN best
    ELSE LET v == f[k]
         IN  ArgMaxScan(f, k + 1, hi, IF v > best[2] THEN <<k, v>> ELSE best)

\* <<np.argmax(f), f[np.argmax(f)]>> over the indices lo..hi (lo <= hi).
ArgMax(f, lo, hi) == ArgMaxScan(f, lo + 1, hi, <<lo, f[lo]>>)

\* The orders (-row).argsort() may return: the permutations of 0..len-1 that
\* list the row in decreasing order (numba's argsort is not stable, so the
\* order among equal savings is any).
DecreasingOrders(row) ==
    LET D == DOMAIN row IN
    { o \in [D -> D] :
        /\ \A a, b \in D : a # b => o[a] # o[b]
        /\ \A a, b \in D : a < b => row[o[a]] >= row[o[b]] }

\* (-saving_i).argsort() left out: the row is taken in index order.
SortedDecreasing_unsorted(row) == row

\* saving_i[saving_order]: the row in decreasing order.  Entry k is the value v
\* with at most k entries above it and more than k entries at or above it (the
\* same for every order argsort may return).
SortedDecreasing(row) ==
    [k \in DOMAIN row |->
        LET v == CHOOSE v \in { row[j] : j \in DOMAIN row } :
                    /\ Cardinality({ j \in DOMAIN row : row[j] > v }) <= k
                    /\ Cardinality({ j \in DOMAIN row : row[j] >= v }) > k
        IN  v]

\* ------------------------------------------------------- penalise_savings
\* np.cumsum(saving_i[saving_order]) - betas - alpha: only the single entry
\* betas[k] is subtracted from the cumulative saving.
PenalisedCurve_single_beta(sorted, alpha, betas) ==
    [k \in DOMAIN sorted |-> CumSum(sorted, k) - betas[k] - alpha]

\* np.cumsum(saving_i[saving_order] - betas) - alpha, as a function of k.
PenalisedCurve(sorted, alpha, betas) ==
    [k \in DOMAIN sorted |->
        CumSum([j \in DOMAIN sorted |-> sorted[j] - betas[j]], k) - alpha]

\* penalise_savings with the sign of alpha flipped: alpha is added to the
\* saving instead of subtracted from it.
penalise_savings_adds_alpha(saving_i, alpha, betas) ==
    LET D == DOMAIN saving_i
        last == Cardinality(D) - 1
    IN  IF \A j \in D : betas[j] = betas[0]
        THEN SumRange([j \in D |-> Max(saving_i[j] - betas[0], 0) + alpha], 0, last)
        ELSE ArgMax(PenalisedCurve(SortedDecreasing(saving_i), 0 - alpha, betas),
                    0, last)[2]

\* penalise_savings for one row of the saving matrix.  The source has two
\* consecutive statements: `if all(betas < 1e-8)` and then
\* `if all(betas == betas[0]) ... else ...`; the second always assigns
\* penalised_savings, so the value of the first is overwritten.
penalise_savings(saving_i, alpha, betas) ==
    LET D == DOMAIN saving_i
        last == Cardinality(D) - 1
        first_branch ==
            IF \A j \in D : betas[j] < BetaTol
            THEN SumRange(saving_i, 0, last) - alpha
            ELSE NaN
        second_branch ==
            IF \A j \in D : betas[j] = betas[0]
            THEN SumRange([j \in D |-> Max(saving_i[j] - betas[0], 0) - alpha],
                          0, last)
            ELSE LET curve == PenalisedCurve(SortedDecreasing(saving_i),
                                             alpha, betas)
                 IN  ArgMax(curve, 0, last)[2]
    IN  second_branch

\* ----------------------------------------------- find_affected_components
\* find_affected_components returning saving_order[:argmax]: one component
\* too few.
AffectedChoices_one_short(row, alpha, betas) ==
    { LET curve == PenalisedCurve([k \in DOMAIN row |-> row[o[k]]], alpha, betas)
          argmax == ArgMax(curve, 0, Cardinality(DOMAIN row) - 1)[1]
      IN  [k \in 0..(argmax - 1) |-> o[k]] : o \in DecreasingOrders(row) }

\* find_affected_components for one anomaly whose saving is row: the arrays
\* saving_order[: argmax + 1] it may report, one per order argsort may return.
AffectedChoices(row, alpha, betas) ==
    { LET curve == PenalisedCurve([k \in DOMAIN row |-> row[o[k]]], alpha, betas)
          argmax == ArgMax(curve, 0, Cardinality(DOMAIN row) - 1)[1]
      IN  [k \in 0..argmax |-> o[k]] : o \in DecreasingOrders(row) }

\* ------------------------------------------------------- optimise_savings
\* optimise_savings without `opt_savings[starts] +`: a candidate is valued by
\* its own penalised saving alone.
optimise_savings_forgets_prefix(lo, hi, opt, sav, end, alpha, betas) ==
    LET candidate_savings ==
            [s \in lo..hi |-> penalise_savings(sav[<<s, end>>], alpha, betas)]
        argmax == ArgMax(candidate_savings, lo, hi)
    IN  <<argmax[2], argmax[1]>>

\* Returns <<candidate_savings[argmax], opt_start>> for starts lo..hi.
optimise_savings(lo, hi, opt, sav, end, alpha, betas) ==
    LET candidate_savings ==
            [s \in lo..hi |-> opt[s] + penalise_savings(sav[<<s, end>>], alpha, betas)]
        argmax == ArgMax(candidate_savings, lo, hi)
    IN  <<argmax[2], argmax[1]>>

\* ---------------------------------------------------------- run_base_capa
\* lower_start without the max_segment_length window.
lower_start_unbounded(tt, maxlen) == 0

lower_start(tt, maxlen) == Max(0, tt - maxlen + 1)

\* upper_start taken as the last start instead of the exclusive bound.
upper_start_inclusive(tt, minlen) == tt - minlen + 1

upper_start(tt, minlen) == tt - minlen + 2

\* CapaIteration without the `elif argmax == 2` branch: a winning point
\* anomaly is not recorded in opt_anomaly_starts.
CapaIteration_no_point_record(tt, opt, starts, sav, calpha, cbetas, palpha, pbetas, minlen, maxlen) ==
    LET lo == lower_start(tt, maxlen)
        hi == upper_start(tt, minlen) - 1
        coll == optimise_savings(lo, hi, opt, sav, tt, calpha, cbetas)
        point == optimise_savings(tt, tt, opt, sav, tt, palpha, pbetas)
        savings == <<opt[tt], coll[1], point[1]>>
        argmax == ArgMax([k \in 0..2 |-> savings[k + 1]], 0, 2)
    IN  << [opt EXCEPT ![tt + 1] = argmax[2]],
           IF argmax[1] = 1 THEN [starts EXCEPT ![tt] = coll[2]] ELSE starts >>

\* CapaIteration with index and value exchanged in the collective branch:
\* opt_anomaly_starts[opt_start] = t.
CapaIteration_writes_at_start(tt, opt, starts, sav, calpha, cbetas, palpha, pbetas, minlen, maxlen) ==
    LET lo == lower_start(tt, maxlen)
        hi == upper_start(tt, minlen) - 1
        coll == optimise_savings(lo, hi, opt, sav, tt, calpha, cbetas)
        point == optimise_savings(tt, tt, opt, sav, tt, palpha, pbetas)
        savings == <<opt[tt], coll[1], point[1]>>
        argmax == ArgMax([k \in 0..2 |-> savings[k + 1]], 0, 2)
    IN  << [opt EXCEPT ![tt + 1] = argmax[2]],
           IF argmax[1] = 1 THEN [starts EXCEPT ![coll[2]] = tt]
           ELSE IF argmax[1] = 2 THEN [starts EXCEPT ![tt] = tt]
           ELSE starts >>

\* CapaIteration with 0 instead of opt_savings[t] as the no-anomaly candidate.
CapaIteration_no_carry(tt, opt, starts, sav, calpha, cbetas, palpha, pbetas, minlen, maxlen) ==
    LET lo == lower_start(tt, maxlen)
        hi == upper_start(tt, minlen) - 1
        coll == optimise_savings(lo, hi, opt, sav, tt, calpha, cbetas)
        point == optimise_savings(tt, tt, opt, sav, tt, palpha, pbetas)
        savings == <<0, coll[1], point[1]>>
        argmax == ArgMax([k \in 0..2 |-> savings[k + 1]], 0, 2)
    IN  << [opt EXCEPT ![tt + 1] = argmax[2]],
           IF argmax[1] = 1 THEN [starts EXCEPT ![tt] = coll[2]]
           ELSE IF argmax[1] = 2 THEN [starts EXCEPT ![tt] = tt]
           ELSE starts >>

\* One iteration of `for t in ts`: the new <<opt_savings, opt_anomaly_starts>>.
CapaIteration(tt, opt, starts, sav, calpha, cbetas, palpha, pbetas, minlen, maxlen) ==
    LET lo == lower_start(tt, maxlen)
        hi == upper_start(tt, minlen) - 1
        coll == optimise_savings(lo, hi, opt, sav, tt, calpha, cbetas)
        point == optimise_savings(tt, tt, opt, sav, tt, palpha, pbetas)
        savings == <<opt[tt], coll[1], point[1]>>
        argmax == ArgMax([k \in 0..2 |-> savings[k + 1]], 0, 2)
    IN  << [opt EXCEPT ![tt + 1] = argmax[2]],
           IF argmax[1] = 1 THEN [starts EXCEPT ![tt] = coll[2]]
           ELSE IF argmax[1] = 2 THEN [starts EXCEPT ![tt] = tt]
           ELSE starts >>

\* ---------------------------------------------------------- get_anomalies
\* get_anomalies without `i = int(start_i)`: the cursor does not jump over the
\* interior of an emitted collective anomaly.
get_anomalies_iteration_no_jump(anomaly_starts, ii, coll, point) ==
    LET start_i == anomaly_starts[ii]
        size == ii - start_i + 1
    IN  IF start_i # NaN /\ size > 1
        THEN <<ii - 1, Append(coll, <<start_i, ii>>), point>>
        ELSE IF start_i # NaN /\ size = 1
        THEN <<ii - 1, coll, Append(point, <<ii, ii>>)>>
        ELSE <<ii - 1, coll, point>>

\* get_anomalies inserting at the front of the lists (insert(0, ...)) instead
\* of appending.
get_anomalies_iteration_prepends(anomaly_starts, ii, coll, point) ==
    LET start_i == anomaly_starts[ii]
        size == ii - start_i + 1
    IN  IF start_i # NaN /\ size > 1
        THEN <<start_i - 1, <<(<<start_i, ii>>)>> \o coll, point>>
        ELSE IF start_i # NaN /\ size = 1
        THEN <<ii - 1, coll, <<(<<ii, ii>>)>> \o point>>
        ELSE <<ii - 1, coll, point>>

\* get_anomalies whose `i -= 1` is skipped after a collective anomaly: the
\* walk resumes at start_i instead of start_i - 1.
get_anomalies_iteration_resumes_at_start(anomaly_starts, ii, coll, point) ==
    LET start_i == anomaly_starts[ii]
        size == ii - start_i + 1
    IN  IF start_i # NaN /\ size > 1
        THEN <<start_i, Append(coll, <<start_i, ii>>), point>>
        ELSE IF start_i # NaN /\ size = 1
        THEN <<ii - 1, coll, Append(point, <<ii, ii>>)>>
        ELSE <<ii - 1, coll, point>>

\* get_anomalies without the `elif size == 1` branch: point anomalies are
\* walked over but not emitted.
get_anomalies_iteration_drops_points(anomaly_starts, ii, coll, point) ==
    LET start_i == anomaly_starts[ii]
        size == ii - start_i + 1
    IN  IF start_i # NaN /\ size > 1
        THEN <<start_i - 1, Append(coll, <<start_i, ii>>), point>>
        ELSE <<ii - 1, coll, point>>

\* The body of `while i >= 0`: <<i, collective_anomalies, point_anomalies>>
\* after it.  With start_i = nan the size is nan and neither branch is taken.
get_anomalies_iteration(anomaly_starts, ii, coll, point) ==
    LET start_i == anomaly_starts[ii]
        size == ii - start_i + 1
    IN  IF start_i # NaN /\ size > 1
        THEN <<start_i - 1, Append(coll, <<start_i, ii>>), point>>
        ELSE IF start_i # NaN /\ size = 1
        THEN <<ii - 1, coll, Append(point, <<ii, ii>>)>>
        ELSE <<ii - 1, coll, point>>

\* get_anomalies: the while loop from cursor ii on; returns
\* <<collective_anomalies, point_anomalies>>.
RECURSIVE get_anomalies_from(_, _, _, _)
get_anomalies_from(anomaly_starts, ii, coll, point) ==
    IF ii < 0 THEN <<coll, point>>
    ELSE LET r == get_anomalies_iteration(anomaly_starts, ii, coll, point)
         IN  get_anomalies_from(anomaly_starts, r[1], r[2], r[3])

get_anomalies(anomaly_starts, len) ==
    get_anomalies_from(anomaly_starts, len - 1, <<>>, <<>>)

\* The DP loop of run_base_capa from iteration tt on.
RECURSIVE CapaLoop(_, _, _, _, _, _, _, _, _, _, _)
CapaLoop(tt, opt, starts, sav, calpha, cbetas, palpha, pbetas, minlen, maxlen, len) ==
    IF tt > len - 1 THEN <<opt, starts>>
    ELSE LET r == CapaIteration(tt, opt, starts, sav, calpha, cbetas, palpha,
                                pbetas, minlen, maxlen)
         IN  CapaLoop(tt + 1, r[1], r[2], sav, calpha, cbetas, palpha, pbetas,
                      minlen, maxlen, len)

\* run_base_capa as a function of its inputs:
\* <<opt_savings, collective_anomalies, point_anomalies>>.
run_base_capa(sav, calpha, cbetas, palpha, pbetas, minlen, maxlen, len) ==
    LET dp == CapaLoop(minlen - 1, [k \in 0..len |-> 0], [k \in 0..(len - 1) |-> NaN],
                       sav, calpha, cbetas, palpha, pbetas, minlen, maxlen, len)
        anomalies == get_anomalies(dp[2], len)
    IN  <<dp[1], anomalies[1], anomalies[2]>>

\* ---------------------------------------------------------- input domains
Components == 0..(P - 1)

\* Saving rows: no component deviates, only the last one does, all do.
ZeroRow == [j \in Components |-> 0]

SparseRow == [j \in Components |-> IF j = P - 1 THEN MaxSaving - 1 ELSE 0]

DenseRow == [j \in Components |-> MaxSaving]

\* The rows saving_func may return for an interval: any of the three for a
\* collective candidate, the first two for a single point.
SavingRows(se) ==
    IF se[1] = se[2] THEN {ZeroRow, SparseRow} ELSE {ZeroRow, SparseRow, DenseRow}

\* The intervals saving_func is called with in iteration tt: the collective
\* candidates (starts, ends) and the point (t, t).
QueriedIntervals(tt, minlen, maxlen) ==
    { <<s, tt>> : s \in lower_start(tt, maxlen)..(upper_start(tt, minlen) - 1) }
        \cup { <<tt, tt>> }

\* What saving_func may answer in iteration tt.
SavingAnswers(tt, minlen, maxlen) ==
    { f \in [QueriedIntervals(tt, minlen, maxlen) -> {ZeroRow, SparseRow, DenseRow}] :
        \A se \in DOMAIN f : f[se] \in SavingRows(se) }

\* Penalties at scale 1: alpha only (the shape of the dense policy), once
\* light and once heavy, equal betas (sparse), a first beta followed by zeros
\* (intermediate), and a custom policy that returns no penalty at all.
DenseShape == [alpha |-> 1, betas |-> [j \in Components |-> 0]]

HeavyDenseShape == [alpha |-> 2, betas |-> [j \in Components |-> 0]]

LightIntermediateShape ==
    [alpha |-> 0, betas |-> [j \in Components |-> IF j = 0 THEN 1 ELSE 0]]

SparseShape == [alpha |-> 1, betas |-> [j \in Components |-> 1]]

IntermediateShape == [alpha |-> 0, betas |-> [j \in Components |-> IF j = 0 THEN 2 ELSE 0]]

FreeShape == [alpha |-> 0, betas |-> [j \in Components |-> 0]]

\* <<collective penalty, point penalty>> at scale 1.
PenaltyPairs ==
    { <<DenseShape, DenseShape>>, <<IntermediateShape, SparseShape>>,
      <<DenseShape, FreeShape>>, <<SparseShape, IntermediateShape>>,
      <<HeavyDenseShape, LightIntermediateShape>> }

\* scale * (alpha, betas): every policy multiplies its alpha and betas by scale.
ScalePenalty(pen, s) ==
    [alpha |-> s * pen.alpha, betas |-> [j \in DOMAIN pen.betas |-> s * pen.betas[j]]]

\* --------------------------------------------------------- penalty policies
\* The policies' formulas use np.log, np.sqrt, chi2.ppf and chi2.pdf.  Their
\* values are inputs of the model, gathered in a record `terms`:
\*   psi      np.log(n)                                  (>= 0)
\*   log_p    np.log(p) = np.log(n_params * p)           (> 0 for p >= 2)
\*   root[q]  np.sqrt(q * n_params * psi)                (>= 0)
\*   tail[j]  2 * p * c_j * f_j + 2 * np.sqrt((j * n_params + 2 * p * c_j * f_j)
\*            * (psi + np.log(p)))                       (>= 0)
\* Every policy returns [alpha, betas], betas indexed 0..p-1.

\* dense_capa_penalty(n, p, n_params, scale)
dense_capa_penalty(p, scale_, terms) ==
    [alpha |-> scale_ * (p * n_params + 2 * terms.root[p] + 2 * terms.psi),
     betas |-> [j \in 0..(p - 1) |-> 0]]

\* sparse_capa_penalty(n, p, n_params, scale)
sparse_capa_penalty(p, scale_, terms) ==
    [alpha |-> 2 * scale_ * terms.psi,
     betas |-> [j \in 0..(p - 1) |-> 2 * scale_ * terms.log_p]]

\* penalty_func(j) of intermediate_capa_penalty
penalty_func(j, p, scale_, terms) ==
    scale_ * (2 * (terms.psi + terms.log_p) + j * n_params + terms.tail[j])

\* intermediate_capa_penalty with np.diff(..., append=0.0).
intermediate_capa_penalty_append_zero(p, scale_, terms) ==
    LET extended == [k \in 0..p |->
                        IF k = 0 \/ k = p THEN 0
                        ELSE penalty_func(k, p, scale_, terms)]
    IN  [alpha |-> 0, betas |-> [k \in 0..(p - 1) |-> extended[k + 1] - extended[k]]]

\* intermediate_capa_penalty(n, p, n_params, scale), for p >= 2:
\* penalties = penalty_func(1..p-1), and np.diff of
\* [0, penalties..., penalties[-1]].
intermediate_capa_penalty(p, scale_, terms) ==
    LET extended == [k \in 0..p |->
                        IF k = 0 THEN 0
                        ELSE IF k = p THEN penalty_func(p - 1, p, scale_, terms)
                        ELSE penalty_func(k, p, scale_, terms)]
    IN  [alpha |-> 0, betas |-> [k \in 0..(p - 1) |-> extended[k + 1] - extended[k]]]

\* alpha + np.cumsum(betas), at index k.
CumulativePenalties(pen, k) == pen.alpha + CumSum(pen.betas, k)

\* combined_capa_penalty with np.minimum(dense_penalties, sparse_penalties):
\* the intermediate penalties are left out of the minimum.
combined_capa_penalty_two_way(p, scale_, terms) ==
    IF p < 2 THEN dense_capa_penalty(1, scale_, terms)
    ELSE LET dense == dense_capa_penalty(p, scale_, terms)
             sparse == sparse_capa_penalty(p, scale_, terms)
             pointwise_min_penalties ==
                 [k \in 0..p |->
                     IF k = 0 THEN 0
                     ELSE Min(CumulativePenalties(dense, k - 1),
                              CumulativePenalties(sparse, k - 1))]
         IN  [alpha |-> 0,
              betas |-> [k \in 0..(p - 1) |->
                            pointwise_min_penalties[k + 1] - pointwise_min_penalties[k]]]

\* combined_capa_penalty falling back to the sparse policy for p < 2.
combined_capa_penalty_sparse_fallback(p, scale_, terms) ==
    IF p < 2 THEN sparse_capa_penalty(1, scale_, terms)
    ELSE combined_capa_penalty_two_way(p, scale_, terms)

\* combined_capa_penalty(n, p, n_params, scale)
combined_capa_penalty(p, scale_, terms) ==
    IF p < 2 THEN dense_capa_penalty(1, scale_, terms)
    ELSE LET dense == dense_capa_penalty(p, scale_, terms)
             sparse == sparse_capa_penalty(p, scale_, terms)
             intermediate == intermediate_capa_penalty(p, scale_, terms)
             pointwise_min_penalties ==
                 [k \in 0..p |->
                     IF k = 0 THEN 0
                     ELSE Min(CumulativePenalties(dense, k - 1),
                              Min(CumulativePenalties(sparse, k - 1),
                                  CumulativePenalties(intermediate, k - 1)))]
         IN  [alpha |-> 0,
              betas |-> [k \in 0..(p - 1) |->
                            pointwise_min_penalties[k + 1] - pointwise_min_penalties[k]]]

\* The names capa_penalty_factory knows.
PenaltyNames == {"dense", "sparse", "intermediate", "combined"}

\* capa_penalty_factory(penalty)(n, p, n_params, scale) for a known name.
capa_penalty(name, p, scale_, terms) ==
    IF name = "dense" THEN dense_capa_penalty(p, scale_, terms)
    ELSE IF name = "sparse" THEN sparse_capa_penalty(p, scale_, terms)
    ELSE IF name = "intermediate" THEN intermediate_capa_penalty(p, scale_, terms)
    ELSE combined_capa_penalty(p, scale_, terms)

\* The values the terms of the formulas can take for dimension p.
PenaltyTerms(p) ==
    { tm \in [psi : 0..MaxTerm, log_p : 0..MaxTerm, root : [{1, p} -> 0..MaxTerm],
              tail : [1..(p - 1) -> 0..MaxTerm]] :
        /\ (p = 1) = (tm.log_p = 0)
        /\ tm.psi = 0 => \A q \in {1, p} : tm.root[q] = 0 }

\* The variables of a specification that is not running.
SegIdle ==
    /\ seg_pc = "idle"
    /\ seg_caller = "none"
    /\ seg_n = 0
    /\ min_interval_length = 0
    /\ max_interval_length = 0
    /\ growth_factor = <<>>
    /\ interval_len = 0
    /\ step = 0
    /\ level_starts = <<>>
    /\ level_ends = <<>>
    /\ seg_starts = <<>>
    /\ seg_ends = <<>>
    /\ seg_min_segment_length = 0
    /\ threshold = 0
    /\ seg_X = <<>>
    /\ score_kind = "none"
    /\ amoc_scores = <<>>
    /\ maximizers = <<>>
    /\ seg_scores = <<>>
    /\ cpts = <<>>

MosIdle ==
    /\ mos_pc = "idle"
    /\ mos_n = 0
    /\ anomaly_lengths = <<>>
    /\ left_bandwidth = 0
    /\ right_bandwidth = 0
    /\ mos_starts = <<>>
    /\ mos_ends = <<>>
    /\ background_starts = <<>>
    /\ background_ends = <<>>

DetIdle ==
    /\ det_pc = "idle"
    /\ det = <<>>
    /\ det_call = <<>>

ExtIdle == SegIdle /\ MosIdle /\ DetIdle

LifeIdle ==
    /\ life_pc = "idle"
    /\ est = <<>>
    /\ call = <<>>

PenIdle ==
    /\ pen_pc = "idle"
    /\ pen_p = 0
    /\ pen_scale = 0
    /\ pen_terms = <<>>
    /\ pen_policy = "none"
    /\ pen_alpha = 0
    /\ pen_betas = <<>>

RowIdle ==
    /\ row_pc = "idle"
    /\ row_saving = <<>>
    /\ row_alpha = 0
    /\ row_betas = <<>>
    /\ row_penalised = 0
    /\ row_affected = <<>>

CapaIdle ==
    /\ n = 0
    /\ min_segment_length = 0
    /\ max_segment_length = 0
    /\ saving = <<>>
    /\ collective_alpha = 0
    /\ collective_betas = <<>>
    /\ point_alpha = 0
    /\ point_betas = <<>>
    /\ unit_collective = <<>>
    /\ unit_point = <<>>
    /\ scale = 0
    /\ pc = "idle"
    /\ t = 0
    /\ opt_savings = <<>>
    /\ opt_anomaly_starts = <<>>
    /\ collective_anomalies = <<>>
    /\ point_anomalies = <<>>

\* ------------------------------------------------------------------- Init
\* run_base_capa is entered with a validated configuration
\* (2 <= min_segment_length <= max_segment_length), a checked input
\* (n >= min_segment_length) and the penalties _fit has stored.
Init ==
    /\ min_segment_length \in 2..MaxN
    /\ max_segment_length \in min_segment_length..MaxN
    /\ n \in min_segment_length..MaxN
    /\ saving = << >>
    /\ \E pair \in PenaltyPairs :
           unit_collective = pair[1] /\ unit_point = pair[2]
    /\ scale \in 0..MaxScale
    /\ collective_alpha = ScalePenalty(unit_collective, scale).alpha
    /\ collective_betas = ScalePenalty(unit_collective, scale).betas
    /\ point_alpha = ScalePenalty(unit_point, scale).alpha
    /\ point_betas = ScalePenalty(unit_point, scale).betas
    /\ pc = "dp"
    /\ t = min_segment_length - 1
    /\ opt_savings = [k \in 0..n |-> 0]
    /\ opt_anomaly_starts = [k \in 0..(n - 1) |-> NaN]
    /\ collective_anomalies = <<>>
    /\ point_anomalies = <<>>
    /\ RowIdle
    /\ PenIdle
    /\ LifeIdle
    /\ ExtIdle

inputs == <<n, min_segment_length, max_segment_length, collective_alpha,
            collective_betas, point_alpha, point_betas, unit_collective,
            unit_point, scale>>

\* One iteration of the DP loop of run_base_capa: saving_func answers for the
\* candidates ending at t, and opt_savings[t + 1] and opt_anomaly_starts[t]
\* are stored.
DPStep ==
    /\ pc = "dp"
    /\ t <= n - 1
    /\ \E answer \in SavingAnswers(t, min_segment_length, max_segment_length) :
          /\ saving' = answer @@ saving
          /\ LET r == CapaIteration(t, opt_savings, opt_anomaly_starts, answer @@ saving,
                                    collective_alpha, collective_betas, point_alpha,
                                    point_betas, min_segment_length, max_segment_length)
             IN  /\ opt_savings' = r[1]
                 /\ opt_anomaly_starts' = r[2]
    /\ t' = t + 1
    /\ pc' = IF t = n - 1 THEN "get_anomalies" ELSE "dp"
    /\ UNCHANGED <<inputs, collective_anomalies, point_anomalies, row_vars, pen_vars, life_vars, ext_vars>>

\* The call of get_anomalies after the loop; run_base_capa then returns
\* opt_savings[1:] and the two lists.
GetAnomalies ==
    /\ pc = "get_anomalies"
    /\ LET r == get_anomalies(opt_anomaly_starts, n)
       IN  /\ collective_anomalies' = r[1]
           /\ point_anomalies' = r[2]
    /\ pc' = "done"
    /\ UNCHANGED <<inputs, saving, t, opt_savings, opt_anomaly_starts, row_vars,
                   pen_vars, life_vars, ext_vars>>

Next == DPStep \/ GetAnomalies

Spec == Init /\ [][Next]_vars

\* --------------------------------------------- the penalty specification
\* One call of a penalty policy through capa_penalty_factory, as
\* _get_penalty_components makes it.
InitPen ==
    /\ CapaIdle
    /\ RowIdle
    /\ LifeIdle
    /\ ExtIdle
    /\ pen_pc = "start"
    /\ pen_p \in 1..MaxPenP
    /\ pen_scale \in 0..MaxPenScale
    /\ pen_terms \in PenaltyTerms(pen_p)
    /\ pen_policy \in PenaltyNames
    /\ pen_alpha = 0
    /\ pen_betas = <<>>

\* The policy returns its (alpha, betas).
BuildPenalty ==
    /\ pen_pc = "start"
    /\ ~(pen_policy = "intermediate" /\ pen_p < 2)
    /\ LET pen == capa_penalty(pen_policy, pen_p, pen_scale, pen_terms)
       IN  /\ pen_alpha' = pen.alpha
           /\ pen_betas' = pen.betas
    /\ pen_pc' = "done"
    /\ UNCHANGED <<pen_p, pen_scale, pen_terms, pen_policy, capa_vars, row_vars,
                   life_vars, ext_vars>>

\* intermediate_capa_penalty raises ValueError("p must be at least 2.").
PenaltyRaises ==
    /\ pen_pc = "start"
    /\ pen_policy = "intermediate"
    /\ pen_p < 2
    /\ pen_pc' = "error"
    /\ UNCHANGED <<pen_p, pen_scale, pen_terms, pen_policy, pen_alpha, pen_betas,
                   capa_vars, row_vars, life_vars, ext_vars>>

NextPen == BuildPenalty \/ PenaltyRaises

SpecPen == InitPen /\ [][NextPen]_vars

\* ------------------------------------------------- the row specification
\* One call of penalise_savings on a saving matrix of one row, followed by
\* find_affected_components for an anomaly with that saving.
InitRow ==
    /\ CapaIdle
    /\ PenIdle
    /\ LifeIdle
    /\ ExtIdle
    /\ row_pc = "start"
    /\ \E p \in 1..MaxRowP :
          /\ row_saving \in [0..(p - 1) -> 0..MaxRowSaving]
          /\ row_betas \in [0..(p - 1) -> 0..MaxRowBeta]
    /\ row_alpha \in 0..MaxRowAlpha
    /\ row_penalised = 0
    /\ row_affected = <<>>

PenaliseRow ==
    /\ row_pc = "start"
    /\ row_penalised' = penalise_savings(row_saving, row_alpha, row_betas)
    /\ row_pc' = "penalised"
    /\ UNCHANGED <<row_saving, row_alpha, row_betas, row_affected, capa_vars, pen_vars, life_vars, ext_vars>>

FindAffectedRow ==
    /\ row_pc = "penalised"
    /\ row_affected' \in AffectedChoices(row_saving, row_alpha, row_betas)
    /\ row_pc' = "affected"
    /\ UNCHANGED <<row_saving, row_alpha, row_betas, row_penalised, capa_vars,
                   pen_vars, life_vars, ext_vars>>

NextRow == PenaliseRow \/ FindAffectedRow

SpecRow == InitRow /\ [][NextRow]_vars

\* ------------------------------------------------ the estimator (Mvcapa)
\* The messages of the errors the estimator raises (all ValueError).
MinLengthError == "min_segment_length must be at least 2."

MaxLengthError == "max_segment_length must be at least min_segment_length."

MissingValuesError == "X cannot contain missing values"

TooFewSamplesError == "X must have at least min_segment_length samples"

UnknownPenaltyError == "Unknown penalty"

DimensionError == "p must be at least 2."

NoError == "none"

ConfigurationErrors == {MinLengthError, MaxLengthError, UnknownPenaltyError, DimensionError}

InputErrors == {MissingValuesError, TooFewSamplesError}

\* The constructor's arguments explored: the segment lengths, and the
\* <<collective_penalty, point_penalty, collective_penalty_scale,
\* point_penalty_scale>>: the defaults, the second set of get_test_params
\* (collective scale 0), other policies, a negative scale, unknown names.
LifeLengths == 1..MaxLifeLen

LifePenaltyArgs ==
    { <<"combined", "sparse", 1, 1>>, <<"combined", "sparse", 0, 1>>,
      <<"dense", "intermediate", 1, -1>>, <<"sparse", "combined", 1, 1>>,
      <<"unknown", "sparse", 1, 1>>, <<"intermediate", "unknown", 0, 1>> }

\* The data X given to _fit and _predict: n rows, p columns, whether some
\* value is missing, and what the saving function finds in it: noise only
\* ("flat": component j saves j), or on top of the noise a shift of every
\* component over any interval of several rows and of the last component at
\* any single row ("shift").  No two components of a row save the same.
LifeData == [n : 1..MaxLifeLen, p : {1, P}, nan : BOOLEAN, kind : {"flat", "shift"}]

\* saving_func(params, starts, ends) on the data X, for every interval.
LifeSaving(X) ==
    [se \in { se \in (0..(X.n - 1)) \X (0..(X.n - 1)) : se[1] <= se[2] } |->
        [j \in 0..(X.p - 1) |->
            IF X.kind = "flat" THEN j
            ELSE IF se[1] < se[2] THEN MaxSaving + j
            ELSE IF j = X.p - 1 THEN MaxSaving + j - 1 ELSE j]]

\* The values of np.log, np.sqrt and the chi2 terms for data of n rows and p
\* columns.
LifeTerms(X) ==
    [psi |-> IF X.n = 1 THEN 0 ELSE 1,
     log_p |-> IF X.p = 1 THEN 0 ELSE 1,
     root |-> [q \in {1, X.p} |-> IF X.n = 1 THEN 0 ELSE 1],
     tail |-> [j \in 1..(X.p - 1) |-> 1]]

\* Mvcapa.__init__ with the length checks left out.
init_error_unchecked(minlen, maxlen) == NoError

\* Mvcapa.__init__: the error it raises after storing its arguments.
init_error(minlen, maxlen) ==
    IF minlen < 2 THEN MinLengthError
    ELSE IF maxlen < minlen THEN MaxLengthError
    ELSE NoError

\* check_capa_input with the two tests left out.
check_capa_input_unchecked(X, minlen) == NoError

\* check_capa_input(X, min_segment_length): the error it raises.
check_capa_input(X, minlen) ==
    IF X.nan THEN MissingValuesError
    ELSE IF X.n < minlen THEN TooFewSamplesError
    ELSE NoError

\* capa_penalty_factory whose last branch returns combined_capa_penalty
\* instead of raising.
penalty_error_accepts_unknown(name, X) ==
    IF name = "intermediate" /\ X.p < 2 THEN DimensionError ELSE NoError

\* capa_penalty_factory(penalty)(n, p, n_params, scale): the error raised by
\* the factory (unknown name) or by the policy (intermediate, p < 2).
penalty_error(name, X) ==
    IF name \notin PenaltyNames THEN UnknownPenaltyError
    ELSE IF name = "intermediate" /\ X.p < 2 THEN DimensionError
    ELSE NoError

\* _get_penalty_components with the two scales exchanged.
get_penalty_components_swapped_scales(e, X) ==
    LET cerr == penalty_error(e.collective_penalty, X)
        perr == penalty_error(e.point_penalty, X)
    IN  IF cerr # NoError THEN [raised |-> cerr]
        ELSE IF perr # NoError THEN [raised |-> perr]
        ELSE [raised |-> NoError,
              collective |-> capa_penalty(e.collective_penalty, X.p,
                                          e.point_penalty_scale, LifeTerms(X)),
              point |-> capa_penalty(e.point_penalty, X.p,
                                     e.collective_penalty_scale, LifeTerms(X))]

\* Mvcapa._get_penalty_components(X): the collective penalty is built first,
\* then the point penalty; the first error ends the call.
get_penalty_components(e, X) ==
    LET cerr == penalty_error(e.collective_penalty, X)
        perr == penalty_error(e.point_penalty, X)
    IN  IF cerr # NoError THEN [raised |-> cerr]
        ELSE IF perr # NoError THEN [raised |-> perr]
        ELSE [raised |-> NoError,
              collective |-> capa_penalty(e.collective_penalty, X.p,
                                          e.collective_penalty_scale, LifeTerms(X)),
              point |-> capa_penalty(e.point_penalty, X.p,
                                     e.point_penalty_scale, LifeTerms(X))]

\* find_affected_components(params, saving_func, anomalies, alpha, betas): the
\* lists it may return, one affected array per anomaly.
find_affected_components(sav, anomalies, alpha, betas) ==
    LET idx == 1..Len(anomalies)
        choices == UNION { AffectedChoices(sav[anomalies[i]], alpha, betas) : i \in idx }
    IN  { [i \in idx |-> <<anomalies[i][1], anomalies[i][2], f[i]>>] :
            f \in { f \in [idx -> choices] :
                      \A i \in idx : f[i] \in AffectedChoices(sav[anomalies[i]], alpha, betas) } }

\* run_mvcapa(X.values, ...): the triples
\* <<opt_savings, collective_anomalies, point_anomalies>> it may return.
run_mvcapa(X, calpha, cbetas, palpha, pbetas, minlen, maxlen) ==
    LET sav == LifeSaving(X)
        base == run_base_capa(sav, calpha, cbetas, palpha, pbetas, minlen, maxlen, X.n)
    IN  { <<base[1], c, q>> :
            c \in find_affected_components(sav, base[2], calpha, cbetas),
            q \in find_affected_components(sav, base[3], palpha, pbetas) }

\* np.diff(opt_savings, prepend=0.0) of the returned opt_savings[1:]; opt is
\* the whole table, whose entry 0 is the prepended 0.
Scores(opt, len) == [k \in 0..(len - 1) |-> opt[k + 1] - opt[k]]

\* What a call keeps of its X: whether a value is missing and whether the
\* rows are fewer than min_segment_length.
InputOf(X, minlen) == [missing |-> X.nan, too_short |-> X.n < minlen]

NoData == [missing |-> FALSE, too_short |-> FALSE]

\* -------------------------------------------- the estimator specification
\* One Mvcapa object: its construction, then any sequence of _fit and
\* _predict calls on any data.
InitLife ==
    /\ CapaIdle
    /\ RowIdle
    /\ PenIdle
    /\ ExtIdle
    /\ life_pc = "new"
    /\ \E minlen \in LifeLengths, maxlen \in LifeLengths,
          args \in LifePenaltyArgs :
          est = [min_segment_length |-> minlen,
                 max_segment_length |-> maxlen,
                 collective_penalty |-> args[1],
                 point_penalty |-> args[2],
                 collective_penalty_scale |-> args[3],
                 point_penalty_scale |-> args[4],
                 has_fit |-> FALSE,
                 collective_alpha_ |-> 0, collective_betas_ |-> <<>>,
                 point_alpha_ |-> 0, point_betas_ |-> <<>>,
                 has_pred |-> FALSE,
                 collective_anomalies |-> <<>>, point_anomalies |-> <<>>,
                 has_scores |-> FALSE,
                 scores |-> <<>>]
    /\ call = [op |-> "none", X |-> NoData, raised |-> NoError]

\* Mvcapa.__init__: the arguments are stored, then the lengths are checked.
Construct ==
    /\ life_pc = "new"
    /\ LET err == init_error(est.min_segment_length, est.max_segment_length)
       IN  /\ life_pc' = IF err = NoError THEN "constructed" ELSE "raised"
           /\ call' = [op |-> "__init__", X |-> NoData, raised |-> err]
    /\ UNCHANGED <<est, capa_vars, row_vars, pen_vars, ext_vars>>

\* Mvcapa._fit(X); the saving function is not called.
Fit ==
    /\ life_pc = "constructed"
    /\ \E X \in { X \in LifeData : X.kind = "flat" } :
          LET input == check_capa_input(X, est.min_segment_length)
              pen == get_penalty_components(est, X)
              raised == IF input # NoError THEN input ELSE pen.raised
          IN  /\ call' = [op |-> "_fit", X |-> InputOf(X, est.min_segment_length),
                       raised |-> raised]
              /\ est' = IF raised # NoError THEN est
                        ELSE [est EXCEPT !.has_fit = TRUE,
                                         !.collective_alpha_ = pen.collective.alpha,
                                         !.collective_betas_ = pen.collective.betas,
                                         !.point_alpha_ = pen.point.alpha,
                                         !.point_betas_ = pen.point.betas]
    /\ UNCHANGED <<life_pc, capa_vars, row_vars, pen_vars, ext_vars>>

\* Mvcapa._predict(X) on a fitted estimator, for data with the number of
\* columns of the data it was fitted to.
Predict ==
    /\ life_pc = "constructed"
    /\ est.has_fit
    /\ \E X \in LifeData :
          /\ X.p = Cardinality(DOMAIN est.collective_betas_)
          /\ LET input == check_capa_input(X, est.min_segment_length)
             IN  /\ call' = [op |-> "_predict", X |-> InputOf(X, est.min_segment_length),
                             raised |-> input]
                 /\ IF input # NoError THEN est' = est
                    ELSE \E r \in run_mvcapa(X, est.collective_alpha_, est.collective_betas_,
                                             est.point_alpha_, est.point_betas_,
                                             est.min_segment_length,
                                             est.max_segment_length) :
                            est' = [est EXCEPT !.has_pred = TRUE,
                                               !.collective_anomalies = r[2],
                                               !.point_anomalies = r[3],
                                               !.has_scores = TRUE,
                                               !.scores = Scores(r[1], X.n)]
    /\ UNCHANGED <<life_pc, capa_vars, row_vars, pen_vars, ext_vars>>

NextLife == Construct \/ Fit \/ Predict

SpecLife == InitLife /\ [][NextLife]_vars

\* ============================================ seeded binary segmentation
\* growth_factor values in (1, 2], as <<numerator, denominator>>:
\* 1.5, 2.0 and 1.25.
GrowthFactors == { <<3, 2>>, <<2, 1>>, <<5, 4>> }

\* Whether the double `1 - 1 / growth_factor` lies below the exact value:
\* 1 - 1/1.25 is 0.19999999999999996, while 1 - 1/1.5 is 0.33333333333333337
\* and 1 - 1/2 is 0.5.
StepFactorRoundsBelow(g) == g = <<5, 4>>

\* np.floor(step_factor * interval_len) in double arithmetic: the exact floor,
\* one less when the exact product is an integer the double product falls
\* short of.
floor_step(g, len) ==
    LET product == (g[1] - g[2]) * len
    IN  IF StepFactorRoundsBelow(g) /\ product % g[1] = 0
        THEN (product \div g[1]) - 1
        ELSE product \div g[1]

\* step = max(1, np.floor(step_factor * interval_len))
seeded_step(g, len) == Max(1, floor_step(g, len))

\* interval_len = max(interval_len + 1, np.floor(growth_factor * interval_len))
next_interval_len(g, len) == Max(len + 1, (g[1] * len) \div g[2])

\* The end of an appended interval without the cut at n - 1.
level_end_unclipped(start, len, nn) == start + len - 1

\* int(min(start + interval_len - 1, n - 1))
level_end(start, len, nn) == Min(start + len - 1, nn - 1)

\* max_interval_length = min(max_interval_length, n)
capped_max_interval_length == Min(max_interval_length, seg_n)

Last(q) == q[Len(q)]

\* ------------------------------------ run_seeded_binary_segmentation
\* The data: one 0/1 value per row.
SegData(nn) == [0..(nn - 1) -> {0, 1}]

ScoreKinds == {"cusum", "negated", "level"}

Abs(a) == IF a < 0 THEN -a ELSE a

\* score_func(params, start, end, split), an external callable: an unscaled
\* CUSUM contrast of the two sides of the split, its negation (no positive
\* score), or the value at the split (the same in every interval).
score_func(kind, X, start, end, split) ==
    LET cusum == Abs((end - split) * SumRange(X, start, split)
                     - (split - start + 1) * SumRange(X, split + 1, end))
    IN  IF kind = "cusum" THEN cusum
        ELSE IF kind = "negated" THEN -cusum
        ELSE X[split]

\* splits_lower = start + min_segment_length - 1
splits_lower(start, minlen) == start + minlen - 1

\* The body of the loop over the intervals: <<amoc_scores[i], maximizers[i]>>.
\* scores has end - start entries, of which the first len(splits) are
\* filled in.
interval_amoc(kind, X, start, end, minlen) ==
    LET lower == splits_lower(start, minlen)
        n_splits == Max(0, (end - minlen + 1) - lower)
        scores == [k \in 0..(end - start - 1) |->
                      IF k < n_splits THEN score_func(kind, X, start, end, lower + k)
                      ELSE 0]
        argmax == ArgMax(scores, 0, end - start - 1)
    IN  <<argmax[2], lower + argmax[1]>>

\* The body of the selection loop with `cpt > starts` instead of
\* `cpt >= starts`.
greedy_iteration_strict_start(scores, maxim, starts, ends, selected) ==
    LET argmax == ArgMax(scores, 1, Len(scores))[1]
        cpt == maxim[argmax]
    IN  << [i \in 1..Len(scores) |->
               IF cpt > starts[i] /\ cpt < ends[i] THEN 0 ELSE scores[i]],
           Append(selected, cpt) >>

\* The body of the selection loop zeroing the score of the arg-max interval
\* only.
greedy_iteration_zeroes_argmax_only(scores, maxim, starts, ends, selected) ==
    LET argmax == ArgMax(scores, 1, Len(scores))[1]
        cpt == maxim[argmax]
    IN  << [i \in 1..Len(scores) |-> IF i = argmax THEN 0 ELSE scores[i]],
           Append(selected, cpt) >>

\* The body of `while np.any(scores > threshold)`: <<scores, cpts>> after it.
greedy_iteration(scores, maxim, starts, ends, selected) ==
    LET argmax == ArgMax(scores, 1, Len(scores))[1]
        cpt == maxim[argmax]
    IN  << [i \in 1..Len(scores) |->
               IF cpt >= starts[i] /\ cpt < ends[i] THEN 0 ELSE scores[i]],
           Append(selected, cpt) >>

\* cpts.sort()
RECURSIVE InsertSorted(_, _)
InsertSorted(x, q) ==
    IF q = <<>> THEN <<x>>
    ELSE IF x <= Head(q) THEN <<x>> \o q
    ELSE <<Head(q)>> \o InsertSorted(x, Tail(q))

RECURSIVE SortAscending(_)
SortAscending(q) ==
    IF q = <<>> THEN <<>> ELSE InsertSorted(Head(q), SortAscending(Tail(q)))

\* The variables run_seeded_binary_segmentation has not assigned yet.
NotScored ==
    /\ seg_X = <<>>
    /\ score_kind = "none"
    /\ amoc_scores = <<>>
    /\ maximizers = <<>>
    /\ seg_scores = <<>>
    /\ cpts = <<>>

\* The entry of make_seeded_intervals (lines 26-30).
SeededEntry ==
    /\ growth_factor \in GrowthFactors
    /\ interval_len = min_interval_length
    /\ step = 0
    /\ level_starts = <<>>
    /\ level_ends = <<>>
    /\ seg_starts = <<>>
    /\ seg_ends = <<>>
    /\ seg_pc = "level"
    /\ NotScored
    /\ CapaIdle
    /\ RowIdle
    /\ PenIdle
    /\ LifeIdle
    /\ MosIdle
    /\ DetIdle

\* make_seeded_intervals called on its own.
InitSeeded ==
    /\ seg_caller = "make_seeded_intervals"
    /\ seg_n \in 2..MaxSeedN
    /\ min_interval_length \in 2..seg_n
    /\ max_interval_length \in min_interval_length..(seg_n + 1)
    /\ seg_min_segment_length = 0
    /\ threshold = 0
    /\ SeededEntry

\* run_seeded_binary_segmentation as _predict calls it: at least
\* 2 * min_segment_length rows, max_interval_length >= 2 * min_segment_length.
InitSeg ==
    /\ seg_caller = "run_seeded_binary_segmentation"
    /\ seg_n \in 2..MaxSegN
    /\ seg_min_segment_length \in 1..(seg_n \div 2)
    /\ min_interval_length = 2 * seg_min_segment_length
    /\ max_interval_length \in min_interval_length..(seg_n + 1)
    /\ threshold \in 0..MaxThreshold
    /\ SeededEntry

seg_inputs == <<seg_caller, seg_n, min_interval_length, max_interval_length,
                growth_factor, seg_min_segment_length, threshold>>

seg_scoring == <<seg_X, score_kind, amoc_scores, maximizers, seg_scores, cpts>>

seg_idle_others == <<capa_vars, row_vars, pen_vars, life_vars, mos_vars, det_vars>>

\* `while interval_len <= max_interval_length` is entered: a level begins.
LevelStart ==
    /\ seg_pc = "level"
    /\ interval_len <= capped_max_interval_length
    /\ level_starts' = <<0>>
    /\ level_ends' = <<interval_len - 1>>
    /\ step' = seeded_step(growth_factor, interval_len)
    /\ seg_pc' = "append"
    /\ UNCHANGED <<seg_inputs, interval_len, seg_starts, seg_ends, seg_scoring,
                   seg_idle_others>>

\* One iteration of `while level_ends[-1] < n - 1`.
LevelAppend ==
    /\ seg_pc = "append"
    /\ Last(level_ends) < seg_n - 1
    /\ LET start == Last(level_starts) + step
       IN  /\ level_starts' = Append(level_starts, start)
           /\ level_ends' = Append(level_ends, level_end(start, interval_len, seg_n))
    /\ UNCHANGED <<seg_inputs, seg_pc, interval_len, step, seg_starts, seg_ends,
                   seg_scoring, seg_idle_others>>

\* The level is complete: interval_len grows and the level is added to
\* starts and ends.
LevelEnd ==
    /\ seg_pc = "append"
    /\ Last(level_ends) >= seg_n - 1
    /\ interval_len' = next_interval_len(growth_factor, interval_len)
    /\ seg_starts' = seg_starts \o level_starts
    /\ seg_ends' = seg_ends \o level_ends
    /\ seg_pc' = "level"
    /\ UNCHANGED <<seg_inputs, step, level_starts, level_ends, seg_scoring,
                   seg_idle_others>>

\* The outer loop is left and make_seeded_intervals returns.
SeededReturn ==
    /\ seg_pc = "level"
    /\ interval_len > capped_max_interval_length
    /\ seg_pc' = IF seg_caller = "make_seeded_intervals" THEN "done" ELSE "seeded"
    /\ UNCHANGED <<seg_inputs, interval_len, step, level_starts, level_ends,
                   seg_starts, seg_ends, seg_scoring, seg_idle_others>>

NextSeeded == LevelStart \/ LevelAppend \/ LevelEnd \/ SeededReturn

SpecSeeded == InitSeeded /\ [][NextSeeded]_vars /\ WF_vars(NextSeeded)

\* The loop over the intervals (lines 80-92) and the entry of
\* greedy_changepoint_selection (scores.copy(), cpts = []).
ScoreIntervals ==
    /\ seg_pc = "seeded"
    /\ \E X \in SegData(seg_n), kind \in ScoreKinds :
          /\ seg_X' = X
          /\ score_kind' = kind
          /\ LET amoc == [i \in 1..Len(seg_starts) |->
                             interval_amoc(kind, X, seg_starts[i], seg_ends[i],
                                           seg_min_segment_length)]
             IN  /\ amoc_scores' = [i \in 1..Len(seg_starts) |-> amoc[i][1]]
                 /\ maximizers' = [i \in 1..Len(seg_starts) |-> amoc[i][2]]
                 /\ seg_scores' = [i \in 1..Len(seg_starts) |-> amoc[i][1]]
    /\ cpts' = <<>>
    /\ seg_pc' = "select"
    /\ UNCHANGED <<seg_inputs, interval_len, step, level_starts, level_ends,
                   seg_starts, seg_ends, seg_idle_others>>

AnyAboveThreshold(scores) == \E i \in 1..Len(scores) : scores[i] > threshold

\* One iteration of the selection loop.
GreedyIteration ==
    /\ seg_pc = "select"
    /\ AnyAboveThreshold(seg_scores)
    /\ LET r == greedy_iteration(seg_scores, maximizers, seg_starts, seg_ends, cpts)
       IN  /\ seg_scores' = r[1]
           /\ cpts' = r[2]
    /\ UNCHANGED <<seg_inputs, seg_pc, interval_len, step, level_starts, level_ends,
                   seg_starts, seg_ends, seg_X, score_kind, amoc_scores, maximizers,
                   seg_idle_others>>

\* The selection loop is left: cpts.sort() and return.
GreedyReturn ==
    /\ seg_pc = "select"
    /\ ~AnyAboveThreshold(seg_scores)
    /\ cpts' = SortAscending(cpts)
    /\ seg_pc' = "done"
    /\ UNCHANGED <<seg_inputs, interval_len, step, level_starts, level_ends,
                   seg_starts, seg_ends, seg_X, score_kind, amoc_scores, maximizers,
                   seg_scores, seg_idle_others>>

NextSeg == NextSeeded \/ ScoreIntervals \/ GreedyIteration \/ GreedyReturn

SpecSeg == InitSeg /\ [][NextSeg]_vars

\* ===================================================== run_moscore_anomaly
\* np.arange(a, b), as a sequence.
Arange(a, b) == [i \in 1..Max(0, b - a) |-> a + i - 1]

\* left_bandwidth + k + right_bandwidth <= n
Fits(k, nn, left, right) == left + k + right <= nn

\* np.concatenate of a non-empty tuple of arrays.
RECURSIVE Concatenate(_)
Concatenate(arrays) ==
    IF arrays = <<>> THEN <<>> ELSE Head(arrays) \o Concatenate(Tail(arrays))

\* The tuple `starts` of lines 29-33: one arange per anomaly length that
\* fits, in the order of anomaly_lengths.
starts_tuple(lengths, nn, left, right) ==
    LET fitting == SelectSeq(lengths, LAMBDA k : Fits(k, nn, left, right))
    IN  [j \in 1..Len(fitting) |-> Arange(left, nn - fitting[j] - right)]

\* The tuple `ends` of lines 34-38: zip pairs the j-th array of `starts`
\* with the j-th entry of anomaly_lengths, and the pair is kept when that
\* entry fits.
ends_tuple(starts, lengths, nn, left, right) ==
    LET pairs == [j \in 1..Min(Len(starts), Len(lengths)) |-> <<starts[j], lengths[j]>>]
        kept == SelectSeq(pairs, LAMBDA pr : Fits(pr[2], nn, left, right))
    IN  [j \in 1..Len(kept) |->
            [i \in 1..Len(kept[j][1]) |-> kept[j][1][i] + kept[j][2] - 1]]

\* The sequences of anomaly lengths explored.
LengthArrays ==
    UNION { [1..len -> 2..MaxAnomalyLength] : len \in 1..MaxLengths }

InitMos ==
    /\ mos_pc = "start"
    /\ mos_n \in 1..MaxMosN
    /\ left_bandwidth \in 1..MaxBandwidth
    /\ right_bandwidth \in 1..MaxBandwidth
    /\ anomaly_lengths \in LengthArrays
    /\ mos_starts = <<>>
    /\ mos_ends = <<>>
    /\ background_starts = <<>>
    /\ background_ends = <<>>
    /\ CapaIdle
    /\ RowIdle
    /\ PenIdle
    /\ LifeIdle
    /\ SegIdle
    /\ DetIdle

mos_inputs == <<mos_n, anomaly_lengths, left_bandwidth, right_bandwidth>>

mos_idle_others == <<capa_vars, row_vars, pen_vars, life_vars, seg_vars, det_vars>>

\* Lines 28-42: the candidate windows and their background windows are built
\* and handed to the score function.
BuildWindows ==
    /\ mos_pc = "start"
    /\ LET starts == starts_tuple(anomaly_lengths, mos_n, left_bandwidth, right_bandwidth)
           ends == ends_tuple(starts, anomaly_lengths, mos_n, left_bandwidth,
                              right_bandwidth)
       IN  /\ starts # <<>>
           /\ ends # <<>>
           /\ mos_starts' = Concatenate(starts)
           /\ mos_ends' = Concatenate(ends)
           /\ background_starts' =
                  [i \in 1..Len(Concatenate(starts)) |->
                      Concatenate(starts)[i] - left_bandwidth]
           /\ background_ends' =
                  [i \in 1..Len(Concatenate(ends)) |->
                      Concatenate(ends)[i] + right_bandwidth]
    /\ mos_pc' = "built"
    /\ UNCHANGED <<mos_inputs, mos_idle_others>>

\* np.concatenate raises ValueError on an empty tuple (line 39 or 40).
ConcatenateRaises ==
    /\ mos_pc = "start"
    /\ LET starts == starts_tuple(anomaly_lengths, mos_n, left_bandwidth, right_bandwidth)
           ends == ends_tuple(starts, anomaly_lengths, mos_n, left_bandwidth,
                              right_bandwidth)
       IN  /\ starts = <<>> \/ ends = <<>>
           /\ mos_starts' = IF starts = <<>> THEN <<>> ELSE Concatenate(starts)
    /\ mos_pc' = "error"
    /\ UNCHANGED <<mos_inputs, mos_ends, background_starts, background_ends,
                   mos_idle_others>>

NextMos == BuildWindows \/ ConcatenateRaises

SpecMos == InitMos /\ [][NextMos]_vars

\* ============================================================ BaseDetector
\* Python's None.
None == [kind |-> "None", data |-> {}]

\* An input check_series rejects.
Invalid == [kind |-> "invalid", data |-> {}]

\* A time series: a set of <<index label, value>> pairs.
SeriesA == [kind |-> "series", data |-> {<<0, 0>>}]
SeriesC == [kind |-> "series", data |-> {<<1, 0>>}]
Labels == [kind |-> "series", data |-> {<<0, 1>>}]

XInputs == {SeriesA, SeriesC, Invalid}
YInputs == {None, Labels, Invalid}

\* X.index
Index(X) == { pv[1] : pv \in X.data }

\* What a call raised.
NotFittedError == "NotFittedError"
InputError == "check_series raised"
FitError == "_fit raised"
CombineError == "combine_first raised"

\* X.combine_first(old): the values of X, and those of old where X has none.
combine_first(X, old) ==
    [kind |-> "series",
     data |-> X.data \cup { pv \in old.data : pv[1] \notin Index(X) }]

\* The fitted attributes _fit leaves behind: the <<X, Y>> it was given.
NoModel == <<None, None>>

\* What a call gave to _fit, if it called it.
NotCalled == <<FALSE, None, None>>
Received(X, Y) == <<TRUE, X, Y>>

\* Return values.  _predict, _score_transform and sparse_to_dense are the
\* subclass's: what they return is a term over what they were given.
NoResult == [method |-> "none", model |-> NoModel, X |-> None, dense |-> FALSE,
             index |-> {}]

Self == [NoResult EXCEPT !.method = "self"]

predict_core(model, X) ==
    [method |-> "_predict", model |-> model, X |-> X, dense |-> FALSE, index |-> {}]

score_transform_core(model, X) ==
    [method |-> "_score_transform", model |-> model, X |-> X, dense |-> FALSE,
     index |-> {}]

sparse_to_dense(y_sparse, index) == [y_sparse EXCEPT !.dense = TRUE, !.index = index]

\* The outcome of a call: the detector after it, what it raised, what it
\* returned and what it gave to _fit.
Outcome(d, error, result, fit_received) ==
    [det |-> d, error |-> error, result |-> result, fit_received |-> fit_received]

\* BaseDetector.__init__
new_detector == [is_fitted |-> FALSE, X |-> None, Y |-> None, model |-> NoModel]

\* fit setting the fitted flag before it calls _fit.
fit_flags_first(d, X, Y, fit_ok) ==
    IF X = Invalid \/ Y = Invalid
    THEN Outcome(d, InputError, NoResult, NotCalled)
    ELSE LET stored == [d EXCEPT !.X = X, !.Y = Y, !.is_fitted = TRUE]
         IN  IF ~fit_ok
             THEN Outcome(stored, FitError, NoResult, Received(X, Y))
             ELSE Outcome([stored EXCEPT !.model = <<X, Y>>], NoError, Self,
                          Received(X, Y))

\* fit(X, Y): check_series, store _X and _Y, _fit, then the fitted flag.
\* fit_ok says whether the subclass's _fit returns.
fit(d, X, Y, fit_ok) ==
    IF X = Invalid \/ Y = Invalid
    THEN Outcome(d, InputError, NoResult, NotCalled)
    ELSE LET stored == [d EXCEPT !.X = X, !.Y = Y]
         IN  IF ~fit_ok
             THEN Outcome(stored, FitError, NoResult, Received(X, Y))
             ELSE Outcome([stored EXCEPT !.model = <<X, Y>>, !.is_fitted = TRUE],
                          NoError, Self, Received(X, Y))

\* predict(X): check_is_fitted, check_series, _predict.
predict(d, X) ==
    IF ~d.is_fitted THEN Outcome(d, NotFittedError, NoResult, NotCalled)
    ELSE IF X = Invalid THEN Outcome(d, InputError, NoResult, NotCalled)
    ELSE Outcome(d, NoError, predict_core(d.model, X), NotCalled)

\* transform(X): predict, then sparse_to_dense on X.index.
transform(d, X) ==
    LET r == predict(d, X)
    IN  IF r.error # NoError THEN r
        ELSE [r EXCEPT !.result = sparse_to_dense(r.result, Index(X))]

\* score_transform(X): check_is_fitted, check_series, _score_transform.
score_transform(d, X) ==
    IF ~d.is_fitted THEN Outcome(d, NotFittedError, NoResult, NotCalled)
    ELSE IF X = Invalid THEN Outcome(d, InputError, NoResult, NotCalled)
    ELSE Outcome(d, NoError, score_transform_core(d.model, X), NotCalled)

\* update(X, Y): check_is_fitted, check_series, combine with the stored data,
\* then _update, whose default re-fits to all the data.  Y.combine_first
\* raises when the stored _Y is None.
update(d, X, Y, fit_ok) ==
    IF ~d.is_fitted THEN Outcome(d, NotFittedError, NoResult, NotCalled)
    ELSE IF X = Invalid \/ Y = Invalid THEN Outcome(d, InputError, NoResult, NotCalled)
    ELSE LET with_X == [d EXCEPT !.X = combine_first(X, d.X)]
         IN  IF Y # None /\ d.Y = None
             THEN Outcome(with_X, CombineError, NoResult, NotCalled)
             ELSE LET stored == IF Y = None THEN with_X
                                ELSE [with_X EXCEPT !.Y = combine_first(Y, d.Y)]
                  IN  IF ~fit_ok
                      THEN Outcome(stored, FitError, NoResult,
                                   Received(stored.X, stored.Y))
                      ELSE Outcome([stored EXCEPT !.model = <<stored.X, stored.Y>>],
                                   NoError, Self, Received(stored.X, stored.Y))

\* update_predict(X): check_series, update(X), predict(X).
update_predict(d, X, fit_ok) ==
    IF X = Invalid THEN Outcome(d, InputError, NoResult, NotCalled)
    ELSE LET u == update(d, X, None, fit_ok)
         IN  IF u.error # NoError THEN u
             ELSE [predict(u.det, X) EXCEPT !.fit_received = u.fit_received]

\* fit_predict(X, Y): self.fit(X, Y).predict(X)
fit_predict(d, X, Y, fit_ok) ==
    LET f == fit(d, X, Y, fit_ok)
    IN  IF f.error # NoError THEN f
        ELSE [predict(f.det, X) EXCEPT !.fit_received = f.fit_received]

\* fit_transform(X, Y): Y = self.fit_predict(X), then sparse_to_dense.
fit_transform(d, X, Y, fit_ok) ==
    LET r == fit_predict(d, X, None, fit_ok)
    IN  IF r.error # NoError THEN r
        ELSE [r EXCEPT !.result = sparse_to_dense(r.result, Index(X))]

Operations == {"fit", "predict", "transform", "score_transform", "update",
               "update_predict", "fit_predict", "fit_transform"}

\* The call of one public method.
Perform(op, d, X, Y, fit_ok) ==
    IF op = "fit" THEN fit(d, X, Y, fit_ok)
    ELSE IF op = "predict" THEN predict(d, X)
    ELSE IF op = "transform" THEN transform(d, X)
    ELSE IF op = "score_transform" THEN score_transform(d, X)
    ELSE IF op = "update" THEN update(d, X, Y, fit_ok)
    ELSE IF op = "update_predict" THEN update_predict(d, X, fit_ok)
    ELSE IF op = "fit_predict" THEN fit_predict(d, X, Y, fit_ok)
    ELSE fit_transform(d, X, Y, fit_ok)

\* The operations that take Y, and those whose outcome depends on _fit.
TakesY == {"fit", "update", "fit_predict", "fit_transform"}

CallsFit == TakesY \cup {"update_predict"}

InitDet ==
    /\ det_pc = "unborn"
    /\ det = <<>>
    /\ det_call = <<>>
    /\ CapaIdle
    /\ RowIdle
    /\ PenIdle
    /\ LifeIdle
    /\ SegIdle
    /\ MosIdle

det_idle_others == <<capa_vars, row_vars, pen_vars, life_vars, seg_vars, mos_vars>>

\* BaseDetector()
ConstructDetector ==
    /\ det_pc = "unborn"
    /\ det' = new_detector
    /\ det_call' = [op |-> "__init__", X |-> None, Y |-> None, error |-> NoError,
                    result |-> NoResult, fit_received |-> NotCalled]
    /\ det_pc' = "live"
    /\ UNCHANGED det_idle_others

\* One call of a public method on the detector.
CallDetector ==
    /\ det_pc = "live"
    /\ \E op \in Operations, X \in XInputs :
          \E Y \in (IF op \in TakesY THEN YInputs ELSE {None}) :
             \E fit_ok \in (IF op \in CallsFit THEN BOOLEAN ELSE {TRUE}) :
                LET r == Perform(op, det, X, Y, fit_ok)
                IN  /\ det' = r.det
                    /\ det_call' = [op |-> op, X |-> X, Y |-> Y, error |-> r.error,
                                    result |-> r.result,
                                    fit_received |-> r.fit_received]
    /\ UNCHANGED <<det_pc, det_idle_others>>

NextDet == ConstructDetector \/ CallDetector

SpecDet == InitDet /\ [][NextDet]_vars

\* =================================================================== claims
SeqRange(q) == { q[k] : k \in 1..Len(q) }

\* All anomalies emitted so far, collective and point together.
EmittedAnomalies == SeqRange(collective_anomalies) \cup SeqRange(point_anomalies)

Disjoint(a, b) == a[2] < b[1] \/ b[2] < a[1]

PairwiseDisjoint(S) == \A a, b \in S : a # b => Disjoint(a, b)

\* The anomalies allowed inside the prefix 0..tt: collective anomalies of
\* length min_segment_length..max_segment_length, point anomalies at indices
\* >= min_segment_length - 1.
AllowedAnomalies(tt) ==
    { se \in (0..tt) \X (0..tt) :
        \/ se[1] = se[2] /\ se[2] >= min_segment_length - 1
        \/ /\ se[1] < se[2]
           /\ se[2] - se[1] + 1 >= min_segment_length
           /\ se[2] - se[1] + 1 <= max_segment_length }

\* The penalised saving of one anomaly: point penalty for a point anomaly,
\* collective penalty for a collective one.
PenalisedSavingOf(se) ==
    IF se[1] = se[2]
    THEN penalise_savings(saving[se], point_alpha, point_betas)
    ELSE penalise_savings(saving[se], collective_alpha, collective_betas)

\* The sum of the second components of a set of pairs.
RECURSIVE SumOfValues(_)
SumOfValues(S) ==
    IF S = {} THEN 0
    ELSE LET a == CHOOSE a \in S : TRUE
         IN  a[2] + SumOfValues(S \ {a})

\* The best total over all sets of pairwise-disjoint allowed anomalies inside
\* the prefix 0..tt, by enumeration of the sets (as sets of pairs
\* <<anomaly, its penalised saving>>).
BestPrefixSaving(tt) ==
    LET valued == { <<se, PenalisedSavingOf(se)>> : se \in AllowedAnomalies(tt) }
        totals == { SumOfValues(S) :
                      S \in { S \in SUBSET valued :
                                 PairwiseDisjoint({ a[1] : a \in S }) } }
    IN  CHOOSE v \in totals : \A w \in totals : w <= v

\* C1: the entry of opt_savings the DP has just stored (entry t, for the
\* prefix 0..t-1; at the start, the zero entries 0..min_segment_length-1)
\* equals the maximum total penalised saving over all sets of pairwise-disjoint
\* allowed anomalies inside that prefix (0 for the empty set).  Every entry is
\* stored once, so this covers every prefix.
C1_OptSavingsAreOptimal ==
    /\ pc \in {"dp", "get_anomalies"} => opt_savings[t] = BestPrefixSaving(t - 1)
    /\ (pc = "dp" /\ t = min_segment_length - 1) =>
           \A k \in 0..t : opt_savings[k] = BestPrefixSaving(k - 1)

\* C1 witness: the DP has finished with an optimum made of two anomalies, one
\* collective and one point.
C1_Witness ==
    /\ pc = "done"
    /\ Len(collective_anomalies) = 1
    /\ Len(point_anomalies) = 1
    /\ opt_savings[n] > 0

\* C2: the anomalies emitted by get_anomalies are pairwise disjoint and every
\* (start, end) satisfies 0 <= start <= end <= n - 1.
C2_AnomaliesDisjointInRange ==
    /\ PairwiseDisjoint(EmittedAnomalies)
    /\ Len(collective_anomalies) + Len(point_anomalies) = Cardinality(EmittedAnomalies)
    /\ \A a \in EmittedAnomalies : 0 <= a[1] /\ a[1] <= a[2] /\ a[2] <= n - 1

\* C2 witness: a collective anomaly was emitted whose interior holds a set
\* backtrack entry (an anomaly the walk must jump over).
C2_Witness ==
    /\ pc = "done"
    /\ \E a \in SeqRange(collective_anomalies) :
           \E k \in a[1]..(a[2] - 1) : opt_anomaly_starts[k] # NaN

\* C3: every collective anomaly has a length within
\* min_segment_length..max_segment_length, every point anomaly has
\* start = end, and no anomaly ends below index min_segment_length - 1.
C3_AnomalyLengths ==
    /\ \A a \in SeqRange(collective_anomalies) :
           /\ a[2] - a[1] + 1 >= min_segment_length
           /\ a[2] - a[1] + 1 <= max_segment_length
           /\ a[2] > a[1]
    /\ \A a \in SeqRange(point_anomalies) : a[1] = a[2]
    /\ \A a \in EmittedAnomalies : a[2] >= min_segment_length - 1

\* C3 witness: a collective anomaly shorter than the sequence was returned
\* although a longer window would have reached further back.
C3_Witness ==
    /\ pc = "done"
    /\ max_segment_length < n
    /\ \E a \in SeqRange(collective_anomalies) :
           a[2] - a[1] + 1 = max_segment_length /\ a[1] > 0

\* The number of anomalies run_base_capa detects on the savings of this run
\* when the two penalty policies are evaluated at scale s.
AnomalyCountAtScale(s) ==
    LET c == ScalePenalty(unit_collective, s)
        q == ScalePenalty(unit_point, s)
        r == run_base_capa(saving, c.alpha, c.betas, q.alpha, q.betas,
                           min_segment_length, max_segment_length, n)
    IN  Len(r[2]) + Len(r[3])

AnomalyCount == Len(collective_anomalies) + Len(point_anomalies)

\* The scales s2 > scale compared with the scale of this run.
LargerScales == (scale + 1)..(MaxScale + 2)

\* C8 as stated: for every scale s2 above the scale s1 > 0 of this run, the
\* number of anomalies detected under s2 is at most the number detected
\* under s1.
C8_CountMonotoneInScale ==
    (pc = "done" /\ scale > 0) =>
        \A s2 \in LargerScales : AnomalyCountAtScale(s2) <= AnomalyCount

\* The collective and the point penalty are the same penalty with a
\* non-negative alpha and all betas zero.
SameAlphaOnlyPenalty ==
    /\ unit_collective = unit_point
    /\ unit_collective.alpha >= 0
    /\ \A j \in DOMAIN unit_collective.betas : unit_collective.betas[j] = 0

\* C8 amended: when the collective and the point penalty are the same
\* alpha-only penalty, the number of anomalies detected under a scale
\* s2 > s1 > 0 is at most the number detected under s1.
C8_CountMonotoneForAlphaOnly ==
    (pc = "done" /\ scale > 0 /\ SameAlphaOnlyPenalty) =>
        \A s2 \in LargerScales : AnomalyCountAtScale(s2) <= AnomalyCount

\* C8 witness: an alpha-only run at a positive scale that detects an anomaly
\* which a larger scale suppresses.
C8_Witness ==
    /\ pc = "done"
    /\ scale > 0
    /\ SameAlphaOnlyPenalty
    /\ AnomalyCount > 0
    /\ \E s2 \in LargerScales : AnomalyCountAtScale(s2) < AnomalyCount

\* The indices inside some emitted anomaly.
FlaggedIndices == UNION { a[1]..a[2] : a \in EmittedAnomalies }

\* C9 as stated: with the penalty scale 0, every index 0..n-1 is inside some
\* returned anomaly.
C9_AllFlaggedAtScaleZero ==
    (pc = "done" /\ scale = 0) => FlaggedIndices = 0..(n - 1)

\* Every point saving the DP asked for has a positive row sum.
PointSavingsPositive ==
    \A k \in (min_segment_length - 1)..(n - 1) :
        SumRange(saving[<<k, k>>], 0, P - 1) > 0

\* C9 amended: with the penalty scale 0 and a positive saving at every point
\* the DP visits, every index from min_segment_length - 1 on is inside some
\* returned anomaly.
C9_VisitedFlaggedAtScaleZero ==
    (pc = "done" /\ scale = 0 /\ PointSavingsPositive) =>
        (min_segment_length - 1)..(n - 1) \subseteq FlaggedIndices

\* C9 witness: such a run, in which an index below min_segment_length - 1
\* stays unflagged.
C9_Witness ==
    /\ pc = "done"
    /\ scale = 0
    /\ PointSavingsPositive
    /\ (min_segment_length - 1)..(n - 1) \subseteq FlaggedIndices
    /\ 0 \notin FlaggedIndices

\* ------------------------------------------------------ claims on one row
RowComponents == DOMAIN row_saving

RECURSIVE SumOver(_, _)
SumOver(f, S) ==
    IF S = {} THEN 0
    ELSE LET j == CHOOSE j \in S : TRUE IN f[j] + SumOver(f, S \ {j})

\* The penalised saving of the component subset S: its savings minus the
\* first |S| betas minus alpha.
SubsetValue(S) ==
    SumOver(row_saving, S) - SumRange(row_betas, 0, Cardinality(S) - 1) - row_alpha

SetMax(S) == CHOOSE v \in S : \A w \in S : w <= v

BestSubsetValue == SetMax({ SubsetValue(S) : S \in (SUBSET RowComponents) \ {{}} })

BetasAllEqual == \A j \in RowComponents : row_betas[j] = row_betas[0]

\* C4: when the betas are not all equal, penalise_savings returns the
\* maximum over all non-empty component subsets S of (sum of the savings in
\* S) - (sum of the first |S| betas) - alpha.
C4_PenalisedIsBestSubset ==
    (row_pc \in {"penalised", "affected"} /\ ~BetasAllEqual) =>
        row_penalised = BestSubsetValue

\* C4 witness: unequal betas, and the best subset is neither a single
\* component nor all of them nor the first components in index order.
C4_Witness ==
    /\ row_pc = "penalised"
    /\ ~BetasAllEqual
    /\ \A S \in (SUBSET RowComponents) \ {{}} :
           SubsetValue(S) = BestSubsetValue =>
               /\ Cardinality(S) > 1
               /\ S # RowComponents
               /\ S # 0..(Cardinality(S) - 1)

\* C5: when all betas are (approximately) zero, penalise_savings returns the
\* sum of the row's savings minus alpha, alpha being subtracted once whatever
\* the number of components.
C5_ZeroBetasSubtractAlphaOnce ==
    (row_pc \in {"penalised", "affected"}
        /\ \A j \in RowComponents : row_betas[j] < BetaTol) =>
        row_penalised = SumOver(row_saving, RowComponents) - row_alpha

\* The value of taking the k largest savings: the best sum of k savings,
\* minus the first k betas and alpha.
TopValue(k) ==
    SetMax({ SubsetValue(S) : S \in { S \in SUBSET RowComponents : Cardinality(S) = k } })

\* The first subset size that maximises TopValue.
KStar ==
    CHOOSE k \in 1..Cardinality(RowComponents) :
        /\ \A m \in 1..Cardinality(RowComponents) : TopValue(m) <= TopValue(k)
        /\ \A m \in 1..(k - 1) : TopValue(m) < TopValue(k)

AffectedSet == { row_affected[k] : k \in DOMAIN row_affected }

\* C10: the components find_affected_components reports are the indices of
\* the k* largest savings, k* being the first subset size that maximises the
\* penalised value: k* distinct indices within [0, p), none with a smaller
\* saving than a component left out; so the subset is never empty.
C10_AffectedAreTopKStar ==
    row_pc = "affected" =>
        /\ DOMAIN row_affected = 0..(KStar - 1)
        /\ Cardinality(AffectedSet) = KStar
        /\ AffectedSet \subseteq RowComponents
        /\ AffectedSet # {}
        /\ \A a \in AffectedSet : \A b \in RowComponents \ AffectedSet :
               row_saving[a] >= row_saving[b]

\* C10 witness: a proper subset of several components is reported, and it is
\* not the first components in index order.
C10_Witness ==
    /\ row_pc = "affected"
    /\ Cardinality(AffectedSet) > 1
    /\ AffectedSet # RowComponents
    /\ AffectedSet # 0..(Cardinality(AffectedSet) - 1)

\* ------------------------------------------- claims on the penalty policies
\* The cumulative penalty of the returned policy at k components: alpha plus
\* the first k betas.
ReturnedCumulative(k) == pen_alpha + SumRange(pen_betas, 0, k - 1)

PolicyCumulative(name, k) ==
    LET pen == capa_penalty(name, pen_p, pen_scale, pen_terms)
    IN  pen.alpha + SumRange(pen.betas, 0, k - 1)

\* C6: for p >= 2 and every k in 1..p, the cumulative penalty of the combined
\* policy at k equals the minimum of the cumulative penalties of the dense,
\* sparse and intermediate policies at k.
C6_CombinedIsPointwiseMin ==
    (pen_pc = "done" /\ pen_policy = "combined" /\ pen_p >= 2) =>
        \A k \in 1..pen_p :
            ReturnedCumulative(k) =
                Min(PolicyCumulative("dense", k),
                    Min(PolicyCumulative("sparse", k), PolicyCumulative("intermediate", k)))

\* C6 witness: a combined penalty whose minimum is the intermediate curve
\* alone at one count and not the intermediate curve at another.
C6_Witness ==
    /\ pen_pc = "done"
    /\ pen_policy = "combined"
    /\ pen_p >= 2
    /\ \E k \in 1..pen_p :
           /\ PolicyCumulative("intermediate", k) < PolicyCumulative("dense", k)
           /\ PolicyCumulative("intermediate", k) < PolicyCumulative("sparse", k)
    /\ \E k \in 1..pen_p :
           PolicyCumulative("intermediate", k) >
               Min(PolicyCumulative("dense", k), PolicyCumulative("sparse", k))

BetasNonDecreasing ==
    \A k \in 0..(pen_p - 2) : pen_betas[k] <= pen_betas[k + 1]

\* C7 as stated: the betas returned by each policy are monotonically
\* non-decreasing in the component index.
C7_BetasNonDecreasing ==
    pen_pc = "done" => BetasNonDecreasing

\* C7 amended: the betas of the dense and of the sparse policy are
\* non-decreasing (all equal); the betas of the intermediate policy end in 0,
\* and for a positive scale they start with a positive entry, so they are not
\* non-decreasing.
C7_DenseSparseBetasNonDecreasing ==
    /\ (pen_pc = "done" /\ pen_policy \in {"dense", "sparse"}) =>
           /\ BetasNonDecreasing
           /\ \A k \in 0..(pen_p - 1) : pen_betas[k] = pen_betas[0]
    /\ (pen_pc = "done" /\ pen_policy = "intermediate") =>
           /\ pen_betas[pen_p - 1] = 0
           /\ pen_scale > 0 => (pen_betas[0] > 0 /\ ~BetasNonDecreasing)

\* C7 witness: a sparse penalty with positive betas on several components.
C7_Witness ==
    /\ pen_pc = "done"
    /\ pen_policy = "sparse"
    /\ pen_p >= 2
    /\ pen_betas[0] > 0

\* ---------------------------------------------- claims on the estimator
InvalidLengths ==
    est.min_segment_length < 2 \/ est.max_segment_length < est.min_segment_length

\* C11: constructing Mvcapa with min_segment_length < 2 or with
\* max_segment_length < min_segment_length raises a configuration error
\* inside the constructor: the object is never fitted and never predicts.
C11_InvalidLengthsRaiseInConstructor ==
    (life_pc # "new" /\ InvalidLengths) =>
        /\ life_pc = "raised"
        /\ call.op = "__init__"
        /\ call.raised = IF est.min_segment_length < 2 THEN MinLengthError
                         ELSE MaxLengthError
        /\ ~est.has_fit
        /\ ~est.has_pred

\* C11 witness: a constructor that raised because max_segment_length is
\* below a min_segment_length of at least 2.
C11_Witness ==
    /\ life_pc = "raised"
    /\ est.min_segment_length >= 2
    /\ est.max_segment_length < est.min_segment_length
    /\ call.raised = MaxLengthError

UnknownPenaltyName ==
    est.collective_penalty \notin PenaltyNames \/ est.point_penalty \notin PenaltyNames

\* C12 as stated: constructing Mvcapa with an unknown collective or point
\* penalty name raises a configuration error at construction time.
C12_UnknownPenaltyRaisesInConstructor ==
    (life_pc # "new" /\ UnknownPenaltyName) =>
        (life_pc = "raised" /\ call.raised \in ConfigurationErrors)

ValidInput == ~call.X.missing /\ ~call.X.too_short

\* C12 amended: the constructor accepts an unknown penalty name; every _fit
\* on valid data then raises a configuration error ("Unknown penalty" when
\* the collective name is the unknown one), input errors being reported
\* first, so the estimator is never fitted and never predicts.
C12_UnknownPenaltyRaisesInFit ==
    (life_pc = "constructed" /\ UnknownPenaltyName) =>
        /\ ~est.has_fit
        /\ ~est.has_pred
        /\ call.op = "_fit" =>
              /\ ValidInput => call.raised \in {UnknownPenaltyError, DimensionError}
              /\ (ValidInput /\ est.collective_penalty \notin PenaltyNames) =>
                     call.raised = UnknownPenaltyError
              /\ ~ValidInput => call.raised \in InputErrors

\* C12 witness: a constructed estimator with an unknown point penalty whose
\* _fit on valid data raised "Unknown penalty".
C12_Witness ==
    /\ life_pc = "constructed"
    /\ est.point_penalty \notin PenaltyNames
    /\ call.op = "_fit"
    /\ ValidInput
    /\ call.raised = UnknownPenaltyError

NonPositiveScale ==
    est.collective_penalty_scale <= 0 \/ est.point_penalty_scale <= 0

UnitPenalty(name) ==
    LET pp == Cardinality(DOMAIN est.collective_betas_)
    IN  capa_penalty(name, pp, 1, LifeTerms([n |-> 2, p |-> pp]))

C14_InputErrorStoresNothing ==
    [][(call'.op \in {"_fit", "_predict"} /\ (call'.X.missing \/ call'.X.too_short)) =>
          /\ call'.raised = IF call'.X.missing THEN MissingValuesError
                            ELSE TooFewSamplesError
          /\ est' = est]_vars

\* C14 witness: a _predict that raised an input error on an estimator that
\* holds the anomalies and scores of an earlier _predict.
C14_Witness ==
    /\ call.op = "_predict"
    /\ call.raised \in InputErrors
    /\ est.has_pred
    /\ est.has_scores
    /\ Len(est.collective_anomalies) > 0

\* ------------------------------------- claims on the order of the output
AscendingByStart(q) == \A a, b \in 1..Len(q) : a < b => q[a][1] < q[b][1]

DescendingByStart(q) == \A a, b \in 1..Len(q) : a < b => q[a][1] > q[b][1]

TopSum(k) ==
    SetMax({ SumOver(row_saving, S) : S \in { S \in SUBSET RowComponents : Cardinality(S) = k } })

RowSizes == 1..Cardinality(RowComponents)

\* C16 as stated: for betas that are not all equal, the penalised saving is
\* the maximum over k = 1..p of (sum of the k largest savings - betas[k-1]),
\* minus alpha.
C16_SingleBetaSubtracted ==
    (row_pc \in {"penalised", "affected"} /\ ~BetasAllEqual) =>
        row_penalised = SetMax({ TopSum(k) - row_betas[k - 1] : k \in RowSizes }) - row_alpha

\* C16 amended: for betas that are not all equal, the penalised saving is the
\* maximum over k = 1..p of (sum of the k largest savings - sum of the first
\* k betas), minus alpha.
C16_CumulativeBetasSubtracted ==
    (row_pc \in {"penalised", "affected"} /\ ~BetasAllEqual) =>
        row_penalised =
            SetMax({ TopSum(k) - SumRange(row_betas, 0, k - 1) : k \in RowSizes }) - row_alpha

\* C16 witness: a row with unequal betas for which subtracting the single
\* entry betas[k-1] would give another value.
C16_Witness ==
    /\ row_pc = "penalised"
    /\ ~BetasAllEqual
    /\ row_penalised #
           SetMax({ TopSum(k) - row_betas[k - 1] : k \in RowSizes }) - row_alpha

\* The general procedure of find_affected_components on the row: the maximum
\* over k of the cumulative sum of (sorted saving - beta), minus alpha.
GeneralPenalisedSaving ==
    SetMax({ TopSum(k) - SumRange(row_betas, 0, k - 1) - row_alpha : k \in RowSizes })

\* C17: when all betas are equal, penalise_savings returns the same
\* penalised saving as the general sort-based procedure.
C17_EqualBetasMatchGeneral ==
    (row_pc \in {"penalised", "affected"} /\ BetasAllEqual) =>
        row_penalised = GeneralPenalisedSaving

\* ------------------------------------------- more claims on the DP
\* The three hypothesis values of iteration k, from the stored table and the
\* savings the saving function returned.
NoAnomalyValue(k) == opt_savings[k]

CandidateValue(s, k) == opt_savings[s] + PenalisedSavingOf(<<s, k>>)

CandidateStarts(k) ==
    lower_start(k, max_segment_length)..(upper_start(k, min_segment_length) - 1)

CollectiveValue(k) == SetMax({ CandidateValue(s, k) : s \in CandidateStarts(k) })

PointValue(k) == CandidateValue(k, k)

\* The iterations the loop has completed.
DoneIterations == (min_segment_length - 1)..(t - 1)

\* C18: at each step the stored value is the maximum of the three
\* hypotheses; origin[t] stays unset when the no-anomaly value is a maximum,
\* a collective anomaly is recorded only when its value exceeds the
\* no-anomaly value (and then with the smallest of the best starts), and a
\* point anomaly only when its value exceeds both others.
C18_TiesFavourEarliest ==
    (pc \in {"dp", "get_anomalies", "done"}) =>
        \A k \in DoneIterations :
            LET none == NoAnomalyValue(k)
                coll == CollectiveValue(k)
                point == PointValue(k)
                origin == opt_anomaly_starts[k]
            IN  /\ opt_savings[k + 1] = Max(none, Max(coll, point))
                /\ (none >= coll /\ none >= point) <=> origin = NaN
                /\ (origin # NaN /\ origin < k) <=> (coll > none /\ coll >= point)
                /\ (origin # NaN /\ origin < k) =>
                       /\ origin \in CandidateStarts(k)
                       /\ CandidateValue(origin, k) = coll
                       /\ \A s \in CandidateStarts(k) :
                              s < origin => CandidateValue(s, k) < coll
                /\ origin = k <=> (point > none /\ point > coll)

\* C18 witness: a step at which the collective and the point hypothesis tie
\* above the no-anomaly value and the collective one is recorded, and a step
\* at which two candidate starts tie and the smaller is recorded.
C18_Witness ==
    /\ pc = "done"
    /\ \E k \in DoneIterations :
           /\ CollectiveValue(k) = PointValue(k)
           /\ CollectiveValue(k) > NoAnomalyValue(k)
           /\ opt_anomaly_starts[k] < k
    /\ \E k \in DoneIterations :
           /\ opt_anomaly_starts[k] # NaN
           /\ opt_anomaly_starts[k] < k
           /\ \E s \in CandidateStarts(k) :
                  s > opt_anomaly_starts[k] /\ CandidateValue(s, k) = CollectiveValue(k)

\* C19: origin[t] is assigned at most once and only in iteration t, with a
\* value in 0..t; opt_savings[t + 1] is written only in iteration t; the
\* reconstructor writes neither array.
C19_WrittenOnceInOwnIteration ==
    [][/\ \A k \in DOMAIN opt_anomaly_starts :
              opt_anomaly_starts'[k] # opt_anomaly_starts[k] =>
                  /\ pc = "dp"
                  /\ k = t
                  /\ opt_anomaly_starts[k] = NaN
                  /\ 0 <= opt_anomaly_starts'[k]
                  /\ opt_anomaly_starts'[k] <= k
       /\ \A k \in DOMAIN opt_savings :
              opt_savings'[k] # opt_savings[k] => (pc = "dp" /\ k = t + 1)]_vars

\* C19 witness: the reconstructor has run over a backtrack array that holds
\* a collective and a point entry.
C19_Witness ==
    /\ pc = "done"
    /\ \E k \in DOMAIN opt_anomaly_starts :
           opt_anomaly_starts[k] # NaN /\ opt_anomaly_starts[k] < k
    /\ \E k \in DOMAIN opt_anomaly_starts : opt_anomaly_starts[k] = k

\* C20: after reconstruction every position whose backtrack entry is set
\* lies inside exactly one emitted anomaly, and no anomaly ending inside an
\* emitted collective anomaly (s, i), at s <= j < i, is emitted.
C20_SetEntriesCoveredOnce ==
    pc = "done" =>
        /\ \A i \in DOMAIN opt_anomaly_starts :
               opt_anomaly_starts[i] # NaN =>
                   Cardinality({ a \in EmittedAnomalies : a[1] <= i /\ i <= a[2] }) = 1
        /\ \A a \in SeqRange(collective_anomalies) :
               \A j \in a[1]..(a[2] - 1) :
                   \A b \in EmittedAnomalies : b[2] # j

\* C20 witness: a collective anomaly (s, i) was emitted and the entry at its
\* first position s is set, an anomaly of its own that is not emitted.
C20_Witness ==
    /\ pc = "done"
    /\ \E a \in SeqRange(collective_anomalies) :
           /\ opt_anomaly_starts[a[1]] # NaN
           /\ \A b \in EmittedAnomalies : b[2] # a[1]

\* ---------------------------------- more claims on the penalty policies
\* C21: for p < 2 the combined policy returns what the dense policy returns
\* for dimension 1 (the dense alpha and a single beta of zero), and the
\* intermediate policy fails with an error.
C21_SmallDimension ==
    (pen_pc # "start" /\ pen_p < 2) =>
        /\ pen_policy = "combined" =>
              /\ pen_pc = "done"
              /\ pen_alpha = pen_scale * (1 * n_params + 2 * pen_terms.root[1]
                                          + 2 * pen_terms.psi)
              /\ DOMAIN pen_betas = {0}
              /\ pen_betas[0] = 0
        /\ pen_policy = "intermediate" <=> pen_pc = "error"

\* C21 witness: the combined policy called with p = 1 and a positive scale.
C21_Witness ==
    /\ pen_pc = "done"
    /\ pen_policy = "combined"
    /\ pen_p = 1
    /\ pen_alpha > 0

\* ------------------------------------------- more claims on run_base_capa
\* C22: the DP table is non-decreasing under every penalty: the entries
\* 0..min_segment_length-1 are 0, every stored entry is at least the entry
\* before it, and the scores (successive differences of the returned table)
\* are all >= 0.
C22_OptSavingsNonDecreasing ==
    /\ \A k \in 0..(min_segment_length - 1) : opt_savings[k] = 0
    /\ \A k \in 0..(t - 1) : opt_savings[k + 1] >= opt_savings[k]
    /\ pc = "done" => \A k \in 0..(n - 1) : Scores(opt_savings, n)[k] >= 0

\* C22 witness: under strictly positive penalties the finished table has a
\* step up, and a plateau at a position where both anomaly hypotheses are
\* worth less than leaving the position alone.
C22_Witness ==
    /\ pc = "done"
    /\ collective_alpha > 0
    /\ point_alpha > 0
    /\ \E k \in DoneIterations : opt_savings[k + 1] > opt_savings[k]
    /\ \E k \in DoneIterations :
           /\ opt_savings[k] > 0
           /\ opt_savings[k + 1] = opt_savings[k]
           /\ CollectiveValue(k) < NoAnomalyValue(k)
           /\ PointValue(k) < NoAnomalyValue(k)

\* C23: the backtracking output is consistent with the DP table: the sum
\* of the penalised savings of all emitted anomalies, collective and point,
\* equals the final table value opt_savings[n].
C23_EmittedSavingsSumToOptimum ==
    pc = "done" =>
        SumOfValues({ <<a, PenalisedSavingOf(a)>> : a \in EmittedAnomalies })
            = opt_savings[n]

\* C23 witness: a collective and a point anomaly with different penalised
\* savings were emitted under positive penalties.
C23_Witness ==
    /\ pc = "done"
    /\ collective_alpha > 0
    /\ point_alpha > 0
    /\ \E c \in SeqRange(collective_anomalies), q \in SeqRange(point_anomalies) :
           /\ PenalisedSavingOf(c) # PenalisedSavingOf(q)
           /\ opt_savings[n] = PenalisedSavingOf(c) + PenalisedSavingOf(q)

\* C24: under a validated configuration the candidate-start window
\* [max(0, t - max_segment_length + 1), t - min_segment_length + 2) is
\* non-empty at every t the DP loop visits, so optimise_savings never gets an
\* empty starts array.
C24_WindowNonEmpty ==
    \A k \in (min_segment_length - 1)..(n - 1) :
        k <= t =>
            /\ lower_start(k, max_segment_length) < upper_start(k, min_segment_length)
            /\ 0 <= lower_start(k, max_segment_length)
            /\ upper_start(k, min_segment_length) <= k

\* C24 witness: the loop has visited a t whose window holds a single start
\* and a t whose window is cut off by max_segment_length.
C24_Witness ==
    /\ pc = "done"
    /\ \E k \in DoneIterations :
           upper_start(k, min_segment_length) - lower_start(k, max_segment_length) = 1
    /\ \E k \in DoneIterations : lower_start(k, max_segment_length) > 0

\* -------------------------------------- claims on seeded binary segmentation
\* The intervals of the level the loop is building or has just completed.
LevelIntervals == { <<level_starts[j], level_ends[j]>> : j \in 1..Len(level_starts) }

\* A complete level is in level_starts / level_ends.
LevelComplete == seg_pc = "level" /\ Len(level_starts) > 0

AboveThreshold(scores) ==
    Cardinality({ i \in 1..Len(scores) : scores[i] > threshold })

\* C26: the selection loop cannot run forever for any threshold >= 0: each
\* iteration zeroes the score of the arg-max interval, whose maximizer lies
\* in [start, end) of that interval, so the number of scores above the
\* threshold strictly decreases and the loop runs at most once per interval.
C26_EachSelectionZeroesArgmax ==
    /\ [](Len(cpts) <= Len(seg_starts))
    /\ [][(seg_pc = "select" /\ cpts' # cpts /\ seg_pc' = "select") =>
            /\ \E i \in 1..Len(seg_scores) :
                   /\ seg_scores[i] > threshold
                   /\ \A k \in 1..Len(seg_scores) : seg_scores[k] <= seg_scores[i]
                   /\ Last(cpts') = maximizers[i]
                   /\ seg_starts[i] <= maximizers[i]
                   /\ maximizers[i] < seg_ends[i]
                   /\ seg_scores'[i] = 0
            /\ AboveThreshold(seg_scores') < AboveThreshold(seg_scores)]_vars

\* C26 witness: the loop ran twice and stopped while an interval that was
\* never the arg-max has lost a score above the threshold.
C26_Witness ==
    /\ seg_pc = "done"
    /\ Len(cpts) = 2
    /\ \E i \in 1..Len(seg_starts) :
           /\ amoc_scores[i] > threshold
           /\ \A k \in 1..Len(cpts) : cpts[k] # maximizers[i]

\* C27: the changepoints returned by run_seeded_binary_segmentation are
\* sorted ascending, pairwise distinct, each within
\* min_segment_length - 1 .. n - 1 - min_segment_length, and any two of them
\* at least min_segment_length apart.
C27_ChangepointsSeparated ==
    (seg_pc = "done" /\ seg_caller = "run_seeded_binary_segmentation") =>
        /\ \A k \in 1..(Len(cpts) - 1) :
               /\ cpts[k] < cpts[k + 1]
               /\ cpts[k + 1] - cpts[k] >= seg_min_segment_length
        /\ \A k \in 1..Len(cpts) :
               /\ seg_min_segment_length - 1 <= cpts[k]
               /\ cpts[k] <= seg_n - 1 - seg_min_segment_length

\* C27 witness: with min_segment_length 2, two changepoints exactly
\* min_segment_length apart were returned, selected in descending order.
C27_Witness ==
    /\ seg_pc = "done"
    /\ seg_min_segment_length = 2
    /\ Len(cpts) = 2
    /\ cpts[2] - cpts[1] = seg_min_segment_length
    /\ \E i, k \in 1..Len(seg_starts) :
           /\ maximizers[i] = cpts[2]
           /\ maximizers[k] = cpts[1]
           /\ amoc_scores[i] > amoc_scores[k]
           /\ amoc_scores[k] > threshold

\* ------------------------------------------- claims on run_moscore_anomaly
\* The anomaly lengths that fit into the data with both bandwidths.
FittingLengths ==
    { anomaly_lengths[j] : j \in { j \in 1..Len(anomaly_lengths) :
        Fits(anomaly_lengths[j], mos_n, left_bandwidth, right_bandwidth) } }

\* C28: whenever at least one anomaly length fits, whatever the order of
\* anomaly_lengths, starts and ends are built with equal lengths, every
\* ends[i] - starts[i] + 1 is an anomaly length that fits, and every
\* background window lies inside 0..n-1.
C28_WindowsMatchLengths ==
    (mos_pc # "start" /\ FittingLengths # {}) =>
        /\ mos_pc = "built"
        /\ Len(mos_starts) = Len(mos_ends)
        /\ \A i \in 1..Len(mos_starts) :
               /\ mos_ends[i] - mos_starts[i] + 1 \in FittingLengths
               /\ 0 <= mos_starts[i] - left_bandwidth
               /\ mos_ends[i] + right_bandwidth <= mos_n - 1

\* --------------------------------------------------- claims on BaseDetector
\* C29: _is_fitted is False after construction; it changes only to True,
\* in a call that fits and whose _fit returned; a call whose _fit raises
\* leaves it as it was; predict, score_transform and update on an unfitted
\* detector raise NotFittedError whatever their input and change nothing.
C29_FittedFlag ==
    [][/\ det_pc = "unborn" => ~det'.is_fitted
       /\ det_pc = "live" =>
            /\ det'.is_fitted # det.is_fitted =>
                   /\ det'.is_fitted
                   /\ det_call'.op \in {"fit", "fit_predict", "fit_transform"}
                   /\ det_call'.fit_received # NotCalled
                   /\ det_call'.error = NoError
            /\ det_call'.error = FitError => det'.is_fitted = det.is_fitted
            /\ (~det.is_fitted
                  /\ det_call'.op \in {"predict", "score_transform", "update"}) =>
                   /\ det_call'.error = NotFittedError
                   /\ det' = det]_vars

\* C29 witness: a fitted detector whose last fit raised in _fit.
C29_Witness ==
    /\ det_pc = "live"
    /\ det.is_fitted
    /\ det_call.op = "fit"
    /\ det_call.error = FitError
    /\ det_call.fit_received # NotCalled
    /\ det.model # <<det_call.X, det_call.Y>>

\* C30: fit_transform(X, Y) leaves the detector as fit(X, Y) does (_fit gets
\* Y, _Y is Y) and returns sparse_to_dense(predict(X), X.index).
C30_FitTransformPassesY ==
    (det_pc = "live" /\ det_call.op = "fit_transform" /\ det_call.error = NoError) =>
        /\ det.is_fitted
        /\ det.X = det_call.X
        /\ det.Y = det_call.Y
        /\ det_call.fit_received = Received(det_call.X, det_call.Y)
        /\ det_call.result =
               sparse_to_dense(predict_core(<<det_call.X, det_call.Y>>, det_call.X),
                               Index(det_call.X))

====
